---- MODULE Spec2Model ----
(***************************************************************************)
(* Model of ndd-tools' method-set generator (nddgen generate-methodsets):  *)
(*   - internal/match   : the five resource-shape matchers, marker gating  *)
(*   - internal/method  : method.Set.Write, the DefinedOutside filter and  *)
(*                        the method generators                            *)
(*   - cmd/nddgen       : the driver genmethodsetCmd.RunE and the five     *)
(*                        Generate* category functions                     *)
(* internal/fields, internal/comments and internal/generate are not part   *)
(* of the source tree at hand; they are modelled from the design text.     *)
(***************************************************************************)
EXTENDS Integers, Sequences, FiniteSets, TLC

VARIABLES
    \* --- method.Set.Write / DefinedOutside exercised on their own ---------
    wset,      \* the method.Set under test: method name -> generator
    wobj,      \* the types.Object under test: [name, methods]
    wfile,     \* the destination filename handed to DefinedOutside
    wout,      \* what each Write call emitted into its jen.File, one entry per call
    wcalls,    \* the filter consultations of each Write call, in call order
    wfilter,   \* the last direct DefinedOutside(fs, wfile)(wobj, name) result
    \* --- the matchers exercised on their own ------------------------------
    mobj,      \* the declaration handed to the matchers
    mres,      \* the matchers' verdicts on mobj
    mmark,     \* the last HasMarker / DoesNotHaveMarker query on mobj and its answer
    meval,     \* the last combinator applied to mobj: the matchers it called, in order
    \* --- the driver --------------------------------------------------------
    tree,      \* hand-written source packages selected by the pattern
    headerFile,\* the --header-file flag ("" when not given)
    disk,      \* generated files: <<PkgPath, filename>> -> emitted methods
    run,       \* number of the current invocation of RunE
    pc,        \* position of RunE
    pkgs,      \* result of packages.Load for this invocation
    pi,        \* index of the package the range loop is at
    err,       \* the error RunE returned (NoErr while running / on success)
    steps,     \* <<package index, category>> of every Generate* call of this run
    sinkCalls, \* <<PkgPath, filename>> of every f.Save attempt of this run
    written,   \* files this run saved: <<PkgPath, filename>> -> emitted methods
    disk0,     \* the generated files as they were when this invocation started
    hist,      \* one summary record per finished invocation
    header,    \* RunE's header local and how it was obtained
    faults,    \* number of failures the environment has injected so far
    \* --- a generated GetItems at run time ----------------------------------
    cells,     \* memory: address -> value stored there
    lItems,    \* l.Items: the addresses of the slots of the list's backing array
    got,       \* the slices GetItems returned, one per call
    touched,   \* the writes made through returned entries
    \* --- the generated target-condition methods at run time ---------------
    tconds,    \* mg.Status.TargetConditions: a nil map, or target -> entry
    tlog,      \* the calls made on mg so far
    tallocs,   \* number of entries allocated by new(TargetConditions)
    tret,      \* what the last GetTargetCondition read
    \* --- generators applied to two declarations of one name --------------
    eobj,      \* the two declarations
    eout       \* what the category's method set wrote for each of them

wvars == <<wset, wobj, wfile, wout, wcalls, wfilter>>
mvars == <<mobj, mres, mmark, meval>>
dvars == <<tree, headerFile, disk, run, pc, pkgs, pi, err, steps, sinkCalls, written, disk0, hist, header, faults>>
ivars == <<cells, lItems, got, touched>>
tvars == <<tconds, tlog, tallocs, tret>>
evars == <<eobj, eout>>
xvars == <<ivars, tvars, evars>>
vars == <<wvars, mvars, dvars, xvars>>

(***************************************************************************)
(* Bounds of the model.                                                    *)
(***************************************************************************)
MaxWrites == 2      \* Write calls made on one method.Set
MaxPkgs == 2        \* packages matched by the pattern
MaxRuns == 2        \* consecutive invocations of the command
MaxFaults == 1      \* failures the environment injects over all invocations
MaxItems == 3       \* elements of a list's Items
MaxGets == 2        \* GetItems calls on one list
MaxTouches == 2     \* writes made through returned entries
MaxCalls == 4       \* calls of the target-condition methods on one object

(***************************************************************************)
(* Go strings. sort.Strings orders by byte-wise comparison, so every       *)
(* method name is given with its bytes.                                    *)
(***************************************************************************)
Bytes(n) ==
    CASE n = "Alpha" -> <<65, 108, 112, 104, 97>>
      [] n = "Mid" -> <<77, 105, 100>>
      [] n = "Zeta" -> <<90, 101, 116, 97>>
      [] n = "DeleteTargetCondition" -> <<68, 101, 108, 101, 116, 101, 84, 97, 114, 103, 101, 116, 67, 111, 110, 100, 105, 116, 105, 111, 110>>
      [] n = "GetActive" -> <<71, 101, 116, 65, 99, 116, 105, 118, 101>>
      [] n = "GetCondition" -> <<71, 101, 116, 67, 111, 110, 100, 105, 116, 105, 111, 110>>
      [] n = "GetDeletionPolicy" -> <<71, 101, 116, 68, 101, 108, 101, 116, 105, 111, 110, 80, 111, 108, 105, 99, 121>>
      [] n = "GetTargetCondition" -> <<71, 101, 116, 84, 97, 114, 103, 101, 116, 67, 111, 110, 100, 105, 116, 105, 111, 110>>
      [] n = "GetTargetConfigReference" -> <<71, 101, 116, 84, 97, 114, 103, 101, 116, 67, 111, 110, 102, 105, 103, 82, 101, 102, 101, 114, 101, 110, 99, 101>>
      [] n = "InitializeTargetConditions" -> <<73, 110, 105, 116, 105, 97, 108, 105, 122, 101, 84, 97, 114, 103, 101, 116, 67, 111, 110, 100, 105, 116, 105, 111, 110, 115>>
      [] n = "SetActive" -> <<83, 101, 116, 65, 99, 116, 105, 118, 101>>
      [] n = "SetConditions" -> <<83, 101, 116, 67, 111, 110, 100, 105, 116, 105, 111, 110, 115>>
      [] n = "SetDeletionPolicy" -> <<83, 101, 116, 68, 101, 108, 101, 116, 105, 111, 110, 80, 111, 108, 105, 99, 121>>
      [] n = "SetTargetConditions" -> <<83, 101, 116, 84, 97, 114, 103, 101, 116, 67, 111, 110, 100, 105, 116, 105, 111, 110, 115>>
      [] n = "SetTargetConfigReference" -> <<83, 101, 116, 84, 97, 114, 103, 101, 116, 67, 111, 110, 102, 105, 103, 82, 101, 102, 101, 114, 101, 110, 99, 101>>
      [] n = "GetItems" -> <<71, 101, 116, 73, 116, 101, 109, 115>>
      [] n = "SetUsers" -> <<83, 101, 116, 85, 115, 101, 114, 115>>
      [] n = "GetUsers" -> <<71, 101, 116, 85, 115, 101, 114, 115>>
      [] n = "SetResourceReference" -> <<83, 101, 116, 82, 101, 115, 111, 117, 114, 99, 101, 82, 101, 102, 101, 114, 101, 110, 99, 101>>
      [] n = "GetResourceReference" -> <<71, 101, 116, 82, 101, 115, 111, 117, 114, 99, 101, 82, 101, 102, 101, 114, 101, 110, 99, 101>>

RECURSIVE BytesLessFrom(_, _, _)
\* Go's < on strings: the first differing byte decides; a proper prefix is smaller.
BytesLessFrom(a, b, i) ==
    IF i > Len(b) THEN FALSE
    ELSE IF i > Len(a) THEN TRUE
    ELSE IF a[i] # b[i] THEN a[i] < b[i]
    ELSE BytesLessFrom(a, b, i + 1)

BytesLess(a, b) == BytesLessFrom(a, b, 1)

StringLess(x, y) == BytesLess(Bytes(x), Bytes(y))

RECURSIVE InsertSorted(_, _)
InsertSorted(x, s) ==
    IF s = <<>> THEN <<x>>
    ELSE IF StringLess(Head(s), x) THEN <<Head(s)>> \o InsertSorted(x, Tail(s))
    ELSE <<x>> \o s

RECURSIVE SortStringsAsc(_)
SortStringsAsc(names) ==
    IF names = <<>> THEN <<>>
    ELSE InsertSorted(Head(names), SortStringsAsc(Tail(names)))

\* The names slice left as the map iteration produced it (the sort forgotten).
SortStringsMissing(names) == names

\* sort.Strings(names): the names in increasing order.
SortStrings(names) == SortStringsAsc(names)

(***************************************************************************)
(* internal/method: generators, Set.Write, DefinedOutside.                 *)
(* A generator (method.New) is the closure's bound data: the method name   *)
(* it emits, the receiver symbol, the field path it touches and the import *)
(* it qualifies its types with. Calling it on an object appends one method *)
(* to the jen.File, modelled as a sequence of emitted methods.             *)
(***************************************************************************)
New(emits, receiver, path, qual) ==
    [emits |-> emits, receiver |-> receiver, path |-> path, qual |-> qual]

\* A generator that looks at the fields the matcher found: it goes through
\* an embedded TargetConfigUsage when the declaration has one.
EmitByFields(f, gen, o) ==
    Append(f, [type |-> o.name, method |-> gen.emits, receiver |-> gen.receiver,
               path |-> IF \E fld \in o.fields : fld.name = "TargetConfigUsage"
                        THEN <<"TargetConfigUsage">> \o gen.path
                        ELSE gen.path,
               qual |-> gen.qual])

\* s[name](f, o): the generator writes its method for o.Name() into f.
Emit(f, gen, o) ==
    Append(f, [type |-> o.name, method |-> gen.emits, receiver |-> gen.receiver,
               path |-> gen.path, qual |-> gen.qual])

\* A forgotten filename comparison: any method of that name counts as foreign.
DefinedAnywhere(filename, o, name) ==
    \E mo \in o.methods : mo.name = name

\* DefinedOutside(fs, filename)(o, name): o's pointer method set holds a
\* method called name whose position is in a file other than filename.
DefinedOutside(filename, o, name) ==
    \E mo \in o.methods : mo.name = name /\ mo.file # filename

RECURSIVE WriteLoopBreaks(_, _, _, _, _)
\* A loop that leaves (break) at the first filtered name instead of going on.
WriteLoopBreaks(f, s, names, o, filename) ==
    IF names = <<>> THEN f
    ELSE IF DefinedOutside(filename, o, Head(names))
         THEN f
         ELSE WriteLoopBreaks(Emit(f, s[Head(names)], o), s, Tail(names), o, filename)

RECURSIVE WriteLoop(_, _, _, _, _)
\* The second loop of Set.Write over the sorted names.
WriteLoop(f, s, names, o, filename) ==
    IF names = <<>> THEN f
    ELSE IF DefinedOutside(filename, o, Head(names))
         THEN WriteLoop(f, s, Tail(names), o, filename)
         ELSE WriteLoop(Emit(f, s[Head(names)], o), s, Tail(names), o, filename)

\* Set.Write(f, o, mf) with mf = DefinedOutside(fs, filename); order is the
\* order in which `for name := range s` happened to yield the keys.
Write(f, s, order, o, filename) ==
    WriteLoop(f, s, SortStrings(order), o, filename)

\* The mf(o, name) calls Write makes, in order, with their results.
FilterCalls(order, o, filename) ==
    LET names == SortStrings(order)
    IN  [i \in 1..Len(names) |->
            [name |-> names[i], skip |-> DefinedOutside(filename, o, names[i])]]

\* Every order a Go map range can yield the keys of S in.
RangeOrders(S) ==
    {q \in [1..Cardinality(S) -> S] : \A i, j \in 1..Cardinality(S) : q[i] = q[j] => i = j}

(***************************************************************************)
(* Declarations. A declaration (types.Object of a struct type) has a name, *)
(* its direct fields, the comment attached to it (doc) and the comment     *)
(* preceding it (before). A field has a name, a type, the embedded flag,   *)
(* the slice flag and, when its type (or its slice element type) is a      *)
(* struct, that struct's fields (nested).                                  *)
(***************************************************************************)
Field(name, type, embedded, slice, nested) ==
    [name |-> name, type |-> type, embedded |-> embedded, slice |-> slice, nested |-> nested]

Decl(name, fields, doc, before) ==
    [name |-> name, fields |-> fields, doc |-> doc, before |-> before]

(***************************************************************************)
(* internal/fields (not in the source tree; from the design text 4.1).     *)
(* A field matcher is a first-class value: a primitive, And of two         *)
(* matchers, or HasFieldThat of a list of matchers.                        *)
(***************************************************************************)
TypeTypeMeta == "k8s.io/apimachinery/pkg/apis/meta/v1.TypeMeta"
TypeObjectMeta == "k8s.io/apimachinery/pkg/apis/meta/v1.ObjectMeta"
TypeResourceSpec == "github.com/netw-device-driver/ndd-runtime/apis/common/v1.ResourceSpec"
TypeResourceStatus == "github.com/netw-device-driver/ndd-runtime/apis/common/v1.ResourceStatus"
TypeTargetConfigStatus == "github.com/netw-device-driver/ndd-runtime/apis/common/v1.TargetConfigStatus"
TypeTargetConfigUsage == "github.com/netw-device-driver/ndd-runtime/apis/common/v1.TargetConfigUsage"

Prim(kind) == [kind |-> kind, args |-> <<>>]
IsEmbedded == Prim("IsEmbedded")
IsSlice == Prim("IsSlice")
IsTypeMeta == Prim("IsTypeMeta")
IsObjectMeta == Prim("IsObjectMeta")
IsSpec == Prim("IsSpec")
IsStatus == Prim("IsStatus")
IsItems == Prim("IsItems")
IsResourceSpec == Prim("IsResourceSpec")
IsResourceStatus == Prim("IsResourceStatus")
IsTargetConfigStatus == Prim("IsTargetConfigStatus")
IsTargetConfigUsage == Prim("IsTargetConfigUsage")
And(a, b) == [kind |-> "And", args |-> <<a, b>>]
HasFieldThat(ms) == [kind |-> "HasFieldThat", args |-> ms]

\* NamedField(name) and TypeIs(qualifiedName) together.
IsTypeNamed(f, type, name) == f.name = name /\ f.type = type

RECURSIVE FieldMatches(_, _)
FieldMatches(m, f) ==
    CASE m.kind = "IsEmbedded" -> f.embedded
      [] m.kind = "IsSlice" -> f.slice
      [] m.kind = "IsTypeMeta" -> IsTypeNamed(f, TypeTypeMeta, "TypeMeta")
      [] m.kind = "IsObjectMeta" -> IsTypeNamed(f, TypeObjectMeta, "ObjectMeta")
      [] m.kind = "IsSpec" -> f.name = "Spec"
      [] m.kind = "IsStatus" -> f.name = "Status"
      [] m.kind = "IsItems" -> f.name = "Items"
      [] m.kind = "IsResourceSpec" -> IsTypeNamed(f, TypeResourceSpec, "ResourceSpec")
      [] m.kind = "IsResourceStatus" -> IsTypeNamed(f, TypeResourceStatus, "ResourceStatus")
      [] m.kind = "IsTargetConfigStatus" -> IsTypeNamed(f, TypeTargetConfigStatus, "TargetConfigStatus")
      [] m.kind = "IsTargetConfigUsage" -> IsTypeNamed(f, TypeTargetConfigUsage, "TargetConfigUsage")
      [] m.kind = "And" -> FieldMatches(m.args[1], f) /\ FieldMatches(m.args[2], f)
      [] m.kind = "HasFieldThat" ->
            \* one level down: every matcher is met by some field of the struct
            \* f's type (or slice element type) resolves to; none when it is no struct
            /\ f.nested # {}
            /\ \A i \in 1..Len(m.args) : \E g \in f.nested : FieldMatches(m.args[i], g)

\* fields.Has(o, m...): every matcher is satisfied by some direct field of o.
Has(o, ms) ==
    \A i \in 1..Len(ms) : \E f \in o.fields : FieldMatches(ms[i], f)

(***************************************************************************)
(* internal/comments (not in the source tree; from the design text 4.2).   *)
(* A comment is a sequence of lines; a line is free text or one marker     *)
(* key=value.                                                              *)
(***************************************************************************)
TextLine == [marker |-> FALSE, key |-> "", value |-> ""]
MarkerLine(k, v) == [marker |-> TRUE, key |-> k, value |-> v]

RECURSIVE MarkerValues(_, _)
\* comments.ParseMarkers(comment)[k]: the values of key k in encounter order.
MarkerValues(comment, k) ==
    IF comment = <<>> THEN <<>>
    ELSE IF Head(comment).marker /\ Head(comment).key = k
         THEN <<Head(comment).value>> \o MarkerValues(Tail(comment), k)
         ELSE MarkerValues(Tail(comment), k)

\* c.For(o) and c.Before(o)
CommentFor(o) == o.doc
CommentBefore(o) == o.before

(***************************************************************************)
(* internal/match: the five recognizers, marker matchers and combinators.  *)
(***************************************************************************)
\* A Managed recognizer that forgot to require the embedded ObjectMeta.
ManagedNoObjectMeta(o) ==
    Has(o, <<
        And(IsTypeMeta, IsEmbedded),
        And(IsSpec, HasFieldThat(<<And(IsResourceSpec, IsEmbedded)>>)),
        And(IsStatus, HasFieldThat(<<And(IsResourceStatus, IsEmbedded)>>))>>)

Managed(o) ==
    Has(o, <<
        And(IsTypeMeta, IsEmbedded),
        And(IsObjectMeta, IsEmbedded),
        And(IsSpec, HasFieldThat(<<And(IsResourceSpec, IsEmbedded)>>)),
        And(IsStatus, HasFieldThat(<<And(IsResourceStatus, IsEmbedded)>>))>>)

\* A ManagedList recognizer that forgot to require Items to be a slice.
ManagedListAnyItems(o) ==
    Has(o, <<
        And(IsTypeMeta, IsEmbedded),
        And(IsItems, HasFieldThat(<<
            And(IsTypeMeta, IsEmbedded),
            And(IsObjectMeta, IsEmbedded),
            And(IsSpec, HasFieldThat(<<And(IsResourceSpec, IsEmbedded)>>)),
            And(IsStatus, HasFieldThat(<<And(IsResourceStatus, IsEmbedded)>>))>>))>>)

ManagedList(o) ==
    Has(o, <<
        And(IsTypeMeta, IsEmbedded),
        And(And(IsItems, IsSlice), HasFieldThat(<<
            And(IsTypeMeta, IsEmbedded),
            And(IsObjectMeta, IsEmbedded),
            And(IsSpec, HasFieldThat(<<And(IsResourceSpec, IsEmbedded)>>)),
            And(IsStatus, HasFieldThat(<<And(IsResourceStatus, IsEmbedded)>>))>>))>>)

\* A TargetConfig recognizer that asks the Spec for an embedded ResourceSpec.
TargetConfigSpecShaped(o) ==
    Has(o, <<
        And(IsTypeMeta, IsEmbedded),
        And(IsObjectMeta, IsEmbedded),
        And(IsSpec, HasFieldThat(<<And(IsResourceSpec, IsEmbedded)>>)),
        And(IsStatus, HasFieldThat(<<And(IsTargetConfigStatus, IsEmbedded)>>))>>)

TargetConfig(o) ==
    Has(o, <<
        And(IsTypeMeta, IsEmbedded),
        And(IsObjectMeta, IsEmbedded),
        IsSpec,
        And(IsStatus, HasFieldThat(<<And(IsTargetConfigStatus, IsEmbedded)>>))>>)

TargetConfigUsage(o) ==
    Has(o, <<
        And(IsTypeMeta, IsEmbedded),
        And(IsObjectMeta, IsEmbedded),
        And(IsTargetConfigUsage, IsEmbedded)>>)

\* A list recognizer that does not ask the element for an embedded ObjectMeta.
TargetConfigUsageListNoObjectMeta(o) ==
    Has(o, <<
        And(IsTypeMeta, IsEmbedded),
        And(And(IsItems, IsSlice), HasFieldThat(<<
            And(IsTypeMeta, IsEmbedded),
            And(IsTargetConfigUsage, IsEmbedded)>>))>>)

TargetConfigUsageList(o) ==
    Has(o, <<
        And(IsTypeMeta, IsEmbedded),
        And(And(IsItems, IsSlice), HasFieldThat(<<
            And(IsTypeMeta, IsEmbedded),
            And(IsObjectMeta, IsEmbedded),
            And(IsTargetConfigUsage, IsEmbedded)>>))>>)

\* A HasMarker that reads the declaration's own comment only.
HasMarkerForOnly(o, k, v) ==
    \E i \in 1..Len(MarkerValues(CommentFor(o), k)) : MarkerValues(CommentFor(o), k)[i] = v

\* A HasMarker that reads the comment preceding the declaration only.
HasMarkerBeforeOnly(o, k, v) ==
    \E i \in 1..Len(MarkerValues(CommentBefore(o), k)) : MarkerValues(CommentBefore(o), k)[i] = v

\* HasMarker(c, k, v)(o): first the values of c.For(o), then those of c.Before(o).
HasMarker(o, k, v) ==
    IF \E i \in 1..Len(MarkerValues(CommentFor(o), k)) : MarkerValues(CommentFor(o), k)[i] = v
    THEN TRUE
    ELSE IF \E i \in 1..Len(MarkerValues(CommentBefore(o), k)) : MarkerValues(CommentBefore(o), k)[i] = v
         THEN TRUE
         ELSE FALSE

DoesNotHaveMarker(o, k, v) == ~HasMarker(o, k, v)

\* The comments HasMarker(c, k, v)(o) hands to comments.ParseMarkers, in
\* order: the second loop is reached only when the first did not return.
MarkerReads(o, k, v) ==
    IF \E i \in 1..Len(MarkerValues(CommentFor(o), k)) : MarkerValues(CommentFor(o), k)[i] = v
    THEN <<"For">>
    ELSE <<"For", "Before">>

\* Object matchers as first-class values.
Matcher(kind) == [kind |-> kind, k |-> "", v |-> "", of |-> <<>>]
MarkerMatcher(kind, k, v) == [kind |-> kind, k |-> k, v |-> v, of |-> <<>>]
AllOf(ms) == [kind |-> "AllOf", k |-> "", v |-> "", of |-> ms]
AnyOf(ms) == [kind |-> "AnyOf", k |-> "", v |-> "", of |-> ms]

RECURSIVE Matches(_, _)
RECURSIVE AllOfFrom(_, _, _)
RECURSIVE AnyOfFrom(_, _, _)
\* the loop of AllOf from position i: false at the first matcher that fails
AllOfFrom(ms, i, o) ==
    IF i > Len(ms) THEN TRUE
    ELSE IF ~Matches(ms[i], o) THEN FALSE
    ELSE AllOfFrom(ms, i + 1, o)

\* the loop of AnyOf from position i: true at the first matcher that holds
AnyOfFrom(ms, i, o) ==
    IF i > Len(ms) THEN FALSE
    ELSE IF Matches(ms[i], o) THEN TRUE
    ELSE AnyOfFrom(ms, i + 1, o)

\* m(o) for an Object matcher m
Matches(m, o) ==
    CASE m.kind = "Managed" -> Managed(o)
      [] m.kind = "ManagedList" -> ManagedList(o)
      [] m.kind = "TargetConfig" -> TargetConfig(o)
      [] m.kind = "TargetConfigUsage" -> TargetConfigUsage(o)
      [] m.kind = "TargetConfigUsageList" -> TargetConfigUsageList(o)
      [] m.kind = "HasMarker" -> HasMarker(o, m.k, m.v)
      [] m.kind = "DoesNotHaveMarker" -> DoesNotHaveMarker(o, m.k, m.v)
      [] m.kind = "AllOf" -> AllOfFrom(m.of, 1, o)
      [] m.kind = "AnyOf" -> AnyOfFrom(m.of, 1, o)

RECURSIVE Called(_, _, _)
RECURSIVE CalledAllEager(_, _, _, _)
RECURSIVE CalledAllFrom(_, _, _, _)
RECURSIVE CalledAnyFrom(_, _, _, _)
\* An AllOf loop that calls every matcher and combines the answers afterwards.
CalledAllEager(ms, i, o, path) ==
    IF i > Len(ms) THEN <<>>
    ELSE Called(ms[i], o, Append(path, i)) \o CalledAllEager(ms, i + 1, o, path)

\* the fn(o) calls the loop of AllOf makes from position i on
CalledAllFrom(ms, i, o, path) ==
    IF i > Len(ms) THEN <<>>
    ELSE Called(ms[i], o, Append(path, i))
            \o (IF ~Matches(ms[i], o) THEN <<>> ELSE CalledAllFrom(ms, i + 1, o, path))

\* the fn(o) calls the loop of AnyOf makes from position i on
CalledAnyFrom(ms, i, o, path) ==
    IF i > Len(ms) THEN <<>>
    ELSE Called(ms[i], o, Append(path, i))
            \o (IF Matches(ms[i], o) THEN <<>> ELSE CalledAnyFrom(ms, i + 1, o, path))

\* every matcher called when m(o) is evaluated, in call order: m itself (at
\* position path of the outermost matcher) with its answer, then the calls
\* its own loop makes
Called(m, o, path) ==
    <<[at |-> path, res |-> Matches(m, o)]>>
        \o (CASE m.kind = "AllOf" -> CalledAllFrom(m.of, 1, o, path)
              [] m.kind = "AnyOf" -> CalledAnyFrom(m.of, 1, o, path)
              [] OTHER -> <<>>)

(***************************************************************************)
(* cmd/nddgen: constants and the matcher each Generate* function builds.   *)
(***************************************************************************)
DisableMarker == "ndd:generate:methods"
Categories == <<"Managed", "ManagedList", "TargetConfig", "TargetConfigUsage", "TargetConfigUsageList">>
CategorySet == {Categories[i] : i \in 1..Len(Categories)}

\* generate.WithMatcher(match.AllOf(match.X(), match.DoesNotHaveMarker(comments.In(p), DisableMarker, "false")))
CategoryMatcher(cat) ==
    AllOf(<<Matcher(cat), MarkerMatcher("DoesNotHaveMarker", DisableMarker, "false")>>)

(***************************************************************************)
(* Specification of Set.Write and DefinedOutside on arbitrary inputs.      *)
(***************************************************************************)
WNames == {"Alpha", "Mid", "Zeta", "GetActive"}
WFiles == {"zz_generated.managed.go", "widget_types.go"}
NoFilter == [name |-> "", skip |-> FALSE, asked |-> FALSE]

\* An object's method set has one method per name.
WObjects ==
    {[name |-> "Widget", methods |-> {[name |-> n, file |-> fl[n]] : n \in M}] :
        M \in SUBSET {"Zeta", "GetActive"}, fl \in [{"Zeta", "GetActive"} -> WFiles]}

WSets ==
    UNION {[S -> {New(n, "r", <<>>, "") : n \in WNames}] : S \in SUBSET WNames}

WellNamed(s) == \A n \in DOMAIN s : s[n].emits = n

DriverIdle ==
    /\ tree = <<>>
    /\ headerFile = ""
    /\ disk = <<>>
    /\ run = 0
    /\ pc = "idle"
    /\ pkgs = <<>>
    /\ pi = 0
    /\ err = <<>>
    /\ steps = <<>>
    /\ sinkCalls = <<>>
    /\ written = <<>>
    /\ disk0 = <<>>
    /\ hist = <<>>
    /\ header = [read |-> "no", text |-> ""]
    /\ faults = 0

MatchIdle ==
    /\ mobj = [name |-> "", fields |-> {}, doc |-> <<>>, before |-> <<>>]
    /\ mres = [asked |-> FALSE]
    /\ mmark = [asked |-> FALSE]
    /\ meval = [asked |-> FALSE]

ItemsIdle ==
    /\ cells = <<>>
    /\ lItems = <<>>
    /\ got = <<>>
    /\ touched = <<>>

TargetConditionsIdle ==
    /\ tconds = [nil |-> TRUE, entries |-> <<>>]
    /\ tlog = <<>>
    /\ tallocs = 0
    /\ tret = [asked |-> FALSE]

EmitIdle ==
    /\ eobj = <<>>
    /\ eout = <<>>

ExtraIdle ==
    /\ ItemsIdle
    /\ TargetConditionsIdle
    /\ EmitIdle

WriteIdle ==
    /\ wset = <<>>
    /\ wobj = [name |-> "", methods |-> {}]
    /\ wfile = ""
    /\ wout = <<>>
    /\ wcalls = <<>>
    /\ wfilter = NoFilter

InitWrite ==
    /\ wset \in {s \in WSets : WellNamed(s)}
    /\ wobj \in WObjects
    /\ wfile \in WFiles
    /\ wout = <<>>
    /\ wcalls = <<>>
    /\ wfilter = NoFilter
    /\ MatchIdle
    /\ DriverIdle
    /\ ExtraIdle

\* One call of wset.Write(f, wobj, DefinedOutside(fs, wfile)) on a fresh file.
DoWrite ==
    /\ Len(wout) < MaxWrites
    /\ \E order \in RangeOrders(DOMAIN wset) :
          /\ wout' = Append(wout, Write(<<>>, wset, order, wobj, wfile))
          /\ wcalls' = Append(wcalls, FilterCalls(order, wobj, wfile))
    /\ UNCHANGED <<wset, wobj, wfile, wfilter, mvars, dvars, xvars>>

\* One direct call of the filter DefinedOutside(fs, wfile)(wobj, name).
DoFilter ==
    /\ \E name \in WNames :
          wfilter' = [name |-> name, skip |-> DefinedOutside(wfile, wobj, name), asked |-> TRUE]
    /\ UNCHANGED <<wset, wobj, wfile, wout, wcalls, mvars, dvars, xvars>>

NextWrite == DoWrite \/ DoFilter

SpecWrite == InitWrite /\ [][NextWrite]_vars

MethodNames(f) == [i \in 1..Len(f) |-> f[i].method]

\* C1: whatever order the map range yields the registered names in, every
\* Write call emits the methods in strictly increasing lexicographic order of
\* their names, repeated calls emit the same sequence, and the set
\* {Zeta, Alpha, Mid} is emitted as Alpha, Mid, Zeta.
C1_WriteEmitsSorted ==
    \A k \in 1..Len(wout) :
        /\ \A i \in 1..(Len(wout[k]) - 1) :
              StringLess(wout[k][i].method, wout[k][i + 1].method)
        /\ wout[k] = wout[1]
        /\ (DOMAIN wset = {"Zeta", "Alpha", "Mid"} /\ wobj.methods = {})
              => MethodNames(wout[k]) = <<"Alpha", "Mid", "Zeta">>

C1_Witness ==
    /\ Len(wout) = MaxWrites
    /\ DOMAIN wset = {"Zeta", "Alpha", "Mid"}
    /\ MethodNames(wout[MaxWrites]) = <<"Alpha", "Mid", "Zeta">>

FilterAgrees(o, filename, call) ==
    LET named == {mo \in o.methods : mo.name = call.name}
    IN  /\ named = {} => ~call.skip
        /\ (named # {} /\ \A mo \in named : mo.file = filename) => ~call.skip
        /\ (\E mo \in named : mo.file # filename) => call.skip

\* C2: the collision filter answers true exactly when the object has a method
\* of the asked name defined in a file other than the destination: false when
\* there is no such method, false when it is defined in the destination only.
C2_DefinedOutsideIff ==
    /\ wfilter.asked => FilterAgrees(wobj, wfile, wfilter)
    /\ \A k \in 1..Len(wcalls) : \A i \in 1..Len(wcalls[k]) :
          FilterAgrees(wobj, wfile, wcalls[k][i])

C2_Witness ==
    \E k \in 1..Len(wcalls) : \E i, j \in 1..Len(wcalls[k]) :
        /\ wcalls[k][i].skip
        /\ ~wcalls[k][j].skip
        /\ [name |-> wcalls[k][j].name, file |-> wfile] \in wobj.methods

NotSkipped(call) == ~call.skip

\* C13: in every Write call the filter is asked once for each name of the
\* set; the generators called are those of the names the filter answered
\* false for, each once, in the order the names were asked; no generator of
\* a name the filter answered true for is called.
C13_WriteCallsUnfiltered ==
    \A k \in 1..Len(wout) :
        LET kept == SelectSeq(wcalls[k], NotSkipped)
        IN  /\ Len(wcalls[k]) = Cardinality(DOMAIN wset)
            /\ {wcalls[k][i].name : i \in 1..Len(wcalls[k])} = DOMAIN wset
            /\ Len(wout[k]) = Len(kept)
            /\ \A j \in 1..Len(kept) :
                  wout[k][j] = Emit(<<>>, wset[kept[j].name], wobj)[1]
            /\ \A i \in 1..Len(wcalls[k]) :
                  Cardinality({j \in 1..Len(wout[k]) : wout[k][j].method = wcalls[k][i].name})
                      = (IF wcalls[k][i].skip THEN 0 ELSE 1)

C13_Witness ==
    /\ Len(wout) >= 1
    /\ DOMAIN wset = {"Alpha", "GetActive", "Mid", "Zeta"}
    /\ [name |-> "GetActive", file |-> "widget_types.go"] \in wobj.methods
    /\ [name |-> "Zeta", file |-> "zz_generated.managed.go"] \in wobj.methods
    /\ wfile = "zz_generated.managed.go"
    /\ MethodNames(wout[1]) = <<"Alpha", "Mid", "Zeta">>

(***************************************************************************)
(* Specification of the matchers on a bounded universe of declarations.    *)
(***************************************************************************)
Emb(name, type) == Field(name, type, TRUE, FALSE, {})
Named(name, type) == Field(name, type, FALSE, FALSE, {})

TypeMetaChoices ==
    {{}, {Emb("TypeMeta", TypeTypeMeta)}, {Named("TypeMeta", TypeTypeMeta)},
     {Emb("TypeMeta", "example.org/other.TypeMeta")}}
ObjectMetaChoices ==
    {{}, {Emb("ObjectMeta", TypeObjectMeta)}, {Named("ObjectMeta", TypeObjectMeta)}}
SpecChoices ==
    {{}, {Field("Spec", "WidgetSpec", FALSE, FALSE, {Named("Size", "int")})},
     {Field("Spec", "WidgetSpec", FALSE, FALSE, {Emb("ResourceSpec", TypeResourceSpec)})},
     {Field("Spec", "WidgetSpec", FALSE, FALSE, {Named("ResourceSpec", TypeResourceSpec)})}}
StatusChoices ==
    {{}, {Field("Status", "string", FALSE, FALSE, {})},
     {Field("Status", "WidgetStatus", FALSE, FALSE, {Emb("ResourceStatus", TypeResourceStatus)})},
     {Field("Status", "WidgetStatus", FALSE, FALSE, {Named("ResourceStatus", TypeResourceStatus)})},
     {Field("Status", "WidgetStatus", FALSE, FALSE, {Emb("TargetConfigStatus", TypeTargetConfigStatus)})},
     {Field("Status", "WidgetStatus", FALSE, FALSE,
            {Emb("ResourceStatus", TypeResourceStatus), Emb("TargetConfigStatus", TypeTargetConfigStatus)})}}
UsageChoices ==
    {{}, {Emb("TargetConfigUsage", TypeTargetConfigUsage)},
     {Named("TargetConfigUsage", TypeTargetConfigUsage)}}

\* the fields of a conventional managed resource, target config and usage
ManagedFields ==
    {Emb("TypeMeta", TypeTypeMeta), Emb("ObjectMeta", TypeObjectMeta),
     Field("Spec", "WidgetSpec", FALSE, FALSE, {Emb("ResourceSpec", TypeResourceSpec)}),
     Field("Status", "WidgetStatus", FALSE, FALSE, {Emb("ResourceStatus", TypeResourceStatus)})}
TargetConfigFields ==
    {Emb("TypeMeta", TypeTypeMeta), Emb("ObjectMeta", TypeObjectMeta),
     Field("Spec", "CfgSpec", FALSE, FALSE, {Named("Credentials", "string")}),
     Field("Status", "CfgStatus", FALSE, FALSE, {Emb("TargetConfigStatus", TypeTargetConfigStatus)})}
UsageFields ==
    {Emb("TypeMeta", TypeTypeMeta), Emb("ObjectMeta", TypeObjectMeta),
     Emb("TargetConfigUsage", TypeTargetConfigUsage)}
ListMeta == Emb("ListMeta", "k8s.io/apimachinery/pkg/apis/meta/v1.ListMeta")

ItemsChoices ==
    {{}, {Field("Items", "[]Widget", FALSE, TRUE, ManagedFields)},
     {Field("Items", "Widget", FALSE, FALSE, ManagedFields)},
     {Field("Items", "[]Widget", FALSE, TRUE, ManagedFields \ {Emb("ObjectMeta", TypeObjectMeta)})},
     {Field("Items", "[]Usage", FALSE, TRUE, UsageFields)},
     {Field("Items", "[]string", FALSE, TRUE, {})},
     {Field("Items", "[]Widget", FALSE, TRUE,
            (ManagedFields \ {Field("Spec", "WidgetSpec", FALSE, FALSE, {Emb("ResourceSpec", TypeResourceSpec)})})
                \cup {Field("Spec", "WidgetSpec", FALSE, FALSE, {Named("ResourceSpec", TypeResourceSpec)})})},
     {Field("Items", "[]Widget", FALSE, TRUE, ManagedFields \ {Emb("TypeMeta", TypeTypeMeta)})},
     {Field("Items", "[]Usage", FALSE, TRUE, UsageFields \ {Emb("ObjectMeta", TypeObjectMeta)})},
     {Field("Items", "[]Usage", FALSE, TRUE,
            (UsageFields \ {Emb("TargetConfigUsage", TypeTargetConfigUsage)})
                \cup {Named("TargetConfigUsage", TypeTargetConfigUsage)})}}

Shapes ==
    {tm \cup om \cup sp \cup st \cup us \cup it :
        tm \in TypeMetaChoices, om \in ObjectMetaChoices, sp \in SpecChoices,
        st \in StatusChoices, us \in UsageChoices, it \in ItemsChoices}

ConventionalShapes ==
    {ManagedFields, TargetConfigFields, UsageFields,
     {Emb("TypeMeta", TypeTypeMeta), ListMeta, Field("Items", "[]Widget", FALSE, TRUE, ManagedFields)},
     {Emb("TypeMeta", TypeTypeMeta), ListMeta, Field("Items", "[]Usage", FALSE, TRUE, UsageFields)},
     {Named("Size", "int")}}

Comments ==
    {<<>>, <<TextLine>>,
     <<MarkerLine(DisableMarker, "false")>>,
     <<TextLine, MarkerLine(DisableMarker, "false")>>,
     <<MarkerLine(DisableMarker, "true")>>,
     <<MarkerLine(DisableMarker, "")>>,
     <<MarkerLine(DisableMarker, "False")>>,
     <<MarkerLine("ndd:generate:other", "false")>>,
     <<MarkerLine(DisableMarker, "true"), MarkerLine(DisableMarker, "false")>>}

MatchInputs ==
    {Decl("Widget", fs, <<>>, <<>>) : fs \in Shapes}
    \cup {Decl("Widget", fs, doc, before) :
            fs \in ConventionalShapes, doc \in Comments, before \in Comments}

NotAsked ==
    [asked |-> FALSE, shape |-> [c \in CategorySet |-> FALSE], gated |-> [c \in CategorySet |-> FALSE]]

InitMatch ==
    /\ mobj \in MatchInputs
    /\ mres = NotAsked
    /\ mmark = [asked |-> FALSE]
    /\ meval = [asked |-> FALSE]
    /\ WriteIdle
    /\ DriverIdle
    /\ ExtraIdle

MarkerKeys == {DisableMarker, "ndd:generate:other"}
MarkerAsked == {"false", "true", ""}

\* Every recognizer, and every category's gated matcher, applied to mobj.
Classify ==
    /\ ~mres.asked
    /\ ~mmark.asked
    /\ ~meval.asked
    /\ mres' = [asked |-> TRUE,
                shape |-> [c \in CategorySet |-> Matches(Matcher(c), mobj)],
                gated |-> [c \in CategorySet |-> Matches(CategoryMatcher(c), mobj)]]
    /\ UNCHANGED <<mobj, mmark, meval, wvars, dvars, xvars>>

\* HasMarker(c, k, v)(mobj) and DoesNotHaveMarker(c, k, v)(mobj)
AskMarker ==
    /\ ~mres.asked
    /\ ~mmark.asked
    /\ ~meval.asked
    /\ \E k \in MarkerKeys, v \in MarkerAsked :
          mmark' = [asked |-> TRUE, k |-> k, v |-> v,
                    has |-> Matches(MarkerMatcher("HasMarker", k, v), mobj),
                    hasNot |-> Matches(MarkerMatcher("DoesNotHaveMarker", k, v), mobj),
                    reads |-> MarkerReads(mobj, k, v)]
    /\ UNCHANGED <<mobj, mres, meval, wvars, dvars, xvars>>

\* combinators built from the recognizers and marker matchers
Combinators ==
    LET off == MarkerMatcher("HasMarker", DisableMarker, "false")
        on == MarkerMatcher("DoesNotHaveMarker", DisableMarker, "false")
    IN  {AllOf(<<>>), AnyOf(<<>>),
         AllOf(<<Matcher("Managed"), on, Matcher("TargetConfig")>>),
         AnyOf(<<Matcher("Managed"), Matcher("TargetConfig"), Matcher("TargetConfigUsage")>>),
         AllOf(<<AnyOf(<<Matcher("Managed"), Matcher("TargetConfig")>>), on,
                 AnyOf(<<off, Matcher("TargetConfigUsage")>>)>>),
         AnyOf(<<AllOf(<<Matcher("Managed"), on>>), AllOf(<<Matcher("TargetConfig"), on>>),
                 Matcher("TargetConfigUsage")>>),
         AllOf(<<AllOf(<<Matcher("Managed"), Matcher("TargetConfig")>>), AnyOf(<<>>)>>),
         AnyOf(<<AnyOf(<<off, Matcher("ManagedList")>>), AllOf(<<>>), Matcher("Managed")>>)}

\* m(mobj) for a combinator m
Combine ==
    /\ ~mres.asked
    /\ ~mmark.asked
    /\ ~meval.asked
    /\ \E m \in Combinators :
          meval' = [asked |-> TRUE, m |-> m, res |-> Matches(m, mobj),
                    calls |-> Called(m, mobj, <<>>)]
    /\ UNCHANGED <<mobj, mres, mmark, wvars, dvars, xvars>>

NextMatch == Classify \/ AskMarker \/ Combine

SpecMatch == InitMatch /\ [][NextMatch]_vars

\* some line of the comment is the marker key=value
Carries(comment, key, value) ==
    \E i \in 1..Len(comment) :
        comment[i].marker /\ comment[i].key = key /\ comment[i].value = value

Disabled(o) ==
    Carries(o.doc, DisableMarker, "false") \/ Carries(o.before, DisableMarker, "false")

\* C4: in each of the five categories a declaration of the category's shape
\* is excluded exactly when its own comment or the comment before it carries
\* ndd:generate:methods=false; no marker, or any other value, leaves it in.
C4_DisableMarkerGates ==
    mres.asked =>
        \A c \in CategorySet :
            /\ (mres.shape[c] /\ Disabled(mobj)) => ~mres.gated[c]
            /\ (mres.shape[c] /\ ~Disabled(mobj)) => mres.gated[c]
            /\ ~mres.shape[c] => ~mres.gated[c]

C4_Witness ==
    /\ mres.asked
    /\ mres.shape["TargetConfig"]
    /\ ~mres.gated["TargetConfig"]
    /\ ~Carries(mobj.doc, DisableMarker, "false")
    /\ Carries(mobj.doc, DisableMarker, "true")
    /\ Carries(mobj.before, DisableMarker, "false")

EmbeddedOf(fs, name, type) ==
    \E f \in fs : f.name = name /\ f.type = type /\ f.embedded

ManagedShape(fs) ==
    /\ EmbeddedOf(fs, "TypeMeta", TypeTypeMeta)
    /\ EmbeddedOf(fs, "ObjectMeta", TypeObjectMeta)
    /\ \E f \in fs : f.name = "Spec" /\ EmbeddedOf(f.nested, "ResourceSpec", TypeResourceSpec)
    /\ \E f \in fs : f.name = "Status" /\ EmbeddedOf(f.nested, "ResourceStatus", TypeResourceStatus)

\* C5: Managed accepts every declaration with an embedded TypeMeta, an
\* embedded ObjectMeta, a Spec holding an embedded ResourceSpec and a Status
\* holding an embedded ResourceStatus, and rejects a declaration that lacks
\* any one of these fields or embeddings.
C5_ManagedShape ==
    mres.asked => (mres.shape["Managed"] <=> ManagedShape(mobj.fields))

C5_Witness ==
    /\ mres.asked
    /\ ~mres.shape["Managed"]
    /\ ManagedShape(mobj.fields \cup {Emb("ObjectMeta", TypeObjectMeta)})

\* C6: no declaration is accepted by two different recognizers.
C6_MutuallyExclusive ==
    mres.asked => \A c, d \in CategorySet : (mres.shape[c] /\ mres.shape[d]) => c = d

\* C16: ManagedList accepts a declaration exactly when it has an embedded
\* TypeMeta and a field Items that is a slice whose element has the whole
\* Managed shape; an Items that is no slice, or whose element lacks a part
\* of the shape, is rejected.
C16_ManagedListShape ==
    mres.asked =>
        (mres.shape["ManagedList"] <=>
            /\ EmbeddedOf(mobj.fields, "TypeMeta", TypeTypeMeta)
            /\ \E f \in mobj.fields : f.name = "Items" /\ f.slice /\ ManagedShape(f.nested))

\* rejected for nothing but Items not being a slice
C16_Witness ==
    /\ mres.asked
    /\ ~mres.shape["ManagedList"]
    /\ EmbeddedOf(mobj.fields, "TypeMeta", TypeTypeMeta)
    /\ \E f \in mobj.fields : f.name = "Items" /\ ~f.slice /\ ManagedShape(f.nested)

TargetConfigShape(fs) ==
    /\ EmbeddedOf(fs, "TypeMeta", TypeTypeMeta)
    /\ EmbeddedOf(fs, "ObjectMeta", TypeObjectMeta)
    /\ \E f \in fs : f.name = "Spec"
    /\ \E f \in fs : f.name = "Status" /\ EmbeddedOf(f.nested, "TargetConfigStatus", TypeTargetConfigStatus)

\* the declaration with its Spec field replaced by another one
WithSpec(o, sp) == [o EXCEPT !.fields = {f \in @ : f.name # "Spec"} \cup sp]

\* C17: TargetConfig accepts a declaration exactly when it has an embedded
\* TypeMeta, an embedded ObjectMeta, a field Spec and a field Status holding
\* an embedded TargetConfigStatus; giving the Spec other content does not
\* change the answer.
C17_TargetConfigShape ==
    mres.asked =>
        /\ mres.shape["TargetConfig"] <=> TargetConfigShape(mobj.fields)
        /\ (\E f \in mobj.fields : f.name = "Spec") =>
              \A sp \in SpecChoices \ {{}} :
                  Matches(Matcher("TargetConfig"), WithSpec(mobj, sp)) = mres.shape["TargetConfig"]

\* accepted with a Spec that holds an embedded ResourceSpec and no other field
C17_Witness ==
    /\ mres.asked
    /\ mres.shape["TargetConfig"]
    /\ \E f \in mobj.fields : f.name = "Spec" /\ f.nested = {Emb("ResourceSpec", TypeResourceSpec)}
    /\ Matches(Matcher("TargetConfig"), WithSpec(mobj, {Field("Spec", "WidgetSpec", FALSE, FALSE, {Named("Size", "int")})}))

UsageShape(fs) ==
    /\ EmbeddedOf(fs, "TypeMeta", TypeTypeMeta)
    /\ EmbeddedOf(fs, "ObjectMeta", TypeObjectMeta)
    /\ EmbeddedOf(fs, "TargetConfigUsage", TypeTargetConfigUsage)

\* C18: TargetConfigUsage accepts a declaration exactly when it has an
\* embedded TypeMeta, ObjectMeta and TargetConfigUsage of its own;
\* TargetConfigUsageList accepts it exactly when it has an embedded TypeMeta
\* and a slice field Items whose element has those three embedded fields.
C18_UsageShapes ==
    mres.asked =>
        /\ mres.shape["TargetConfigUsage"] <=> UsageShape(mobj.fields)
        /\ mres.shape["TargetConfigUsageList"] <=>
              /\ EmbeddedOf(mobj.fields, "TypeMeta", TypeTypeMeta)
              /\ \E f \in mobj.fields : f.name = "Items" /\ f.slice /\ UsageShape(f.nested)

\* a list of usages whose element lacks nothing but the embedded ObjectMeta
C18_Witness ==
    /\ mres.asked
    /\ ~mres.shape["TargetConfigUsageList"]
    /\ ~mres.shape["TargetConfigUsage"]
    /\ EmbeddedOf(mobj.fields, "TypeMeta", TypeTypeMeta)
    /\ \E f \in mobj.fields :
          /\ f.name = "Items"
          /\ f.slice
          /\ ~UsageShape(f.nested)
          /\ UsageShape(f.nested \cup {Emb("ObjectMeta", TypeObjectMeta)})

\* C14: HasMarker answers true exactly when the asked value is a value of
\* the asked key in the declaration's own comment or in the comment before
\* it; the own comment is read first and, when it holds the value, the
\* comment before is not read; DoesNotHaveMarker answers the opposite.
C14_HasMarkerEitherComment ==
    mmark.asked =>
        /\ mmark.has <=> (Carries(mobj.doc, mmark.k, mmark.v) \/ Carries(mobj.before, mmark.k, mmark.v))
        /\ mmark.reads[1] = "For"
        /\ Carries(mobj.doc, mmark.k, mmark.v) => mmark.reads = <<"For">>
        /\ ~Carries(mobj.doc, mmark.k, mmark.v) => mmark.reads = <<"For", "Before">>
        /\ mmark.hasNot <=> ~mmark.has

C14_Witness ==
    /\ mmark.asked
    /\ mmark.v = "true"
    /\ Carries(mobj.doc, mmark.k, "true")
    /\ Carries(mobj.before, mmark.k, "true")
    /\ mmark.has
    /\ mmark.reads = <<"For">>

RECURSIVE NodeAt(_, _)
NodeAt(m, path) == IF path = <<>> THEN m ELSE NodeAt(m.of[Head(path)], Tail(path))

RECURSIVE Truth(_, _)
\* what a matcher answers, every part of it looked at
Truth(m, o) ==
    CASE m.kind = "AllOf" -> \A i \in 1..Len(m.of) : Truth(m.of[i], o)
      [] m.kind = "AnyOf" -> \E i \in 1..Len(m.of) : Truth(m.of[i], o)
      [] OTHER -> Matches(m, o)

\* the position at which a combinator's loop ends: the first matcher whose
\* answer decides, or the last matcher when none does
StopsAt(m, o) ==
    LET deciding == {i \in 1..Len(m.of) : Truth(m.of[i], o) = (m.kind = "AnyOf")}
    IN  IF deciding = {} THEN Len(m.of)
        ELSE CHOOSE i \in deciding : \A j \in deciding : i <= j

\* C15: a combinator answers the conjunction (AllOf) or disjunction (AnyOf)
\* of its matchers' answers; of its matchers it calls the first up to the one
\* that answers false (AllOf) or true (AnyOf), in the order given, each once,
\* and none after it; this holds for a combinator inside another as well.
C15_CombinatorsShortCircuit ==
    meval.asked =>
        /\ meval.res = Truth(meval.m, mobj)
        /\ meval.calls[1].at = <<>>
        /\ \A a \in 1..Len(meval.calls) :
              LET p == meval.calls[a].at
                  n == NodeAt(meval.m, p)
                  sub == {b \in 1..Len(meval.calls) :
                             /\ Len(meval.calls[b].at) = Len(p) + 1
                             /\ SubSeq(meval.calls[b].at, 1, Len(p)) = p}
              IN  /\ meval.calls[a].res = Truth(n, mobj)
                  /\ \A b \in 1..Len(meval.calls) : meval.calls[b].at = p => b = a
                  /\ n.kind \in {"AllOf", "AnyOf"} =>
                        /\ {meval.calls[b].at[Len(p) + 1] : b \in sub} = 1..StopsAt(n, mobj)
                        /\ \A b, c \in sub :
                              b < c => meval.calls[b].at[Len(p) + 1] < meval.calls[c].at[Len(p) + 1]
                        /\ \A b \in sub : a < b
                  /\ n.kind \notin {"AllOf", "AnyOf"} => sub = {}

\* an AllOf nested in an AnyOf stopped at its first matcher, the AnyOf went
\* on to its second matcher and stopped there
C15_Witness ==
    /\ meval.asked
    /\ meval.m.kind = "AnyOf"
    /\ Len(meval.m.of) = 3
    /\ meval.m.of[1].kind = "AllOf"
    /\ meval.m.of[2].kind = "AllOf"
    /\ meval.res
    /\ [at |-> <<1, 1>>, res |-> FALSE] \in {meval.calls[a] : a \in 1..Len(meval.calls)}
    /\ \A a \in 1..Len(meval.calls) : meval.calls[a].at \notin {<<1, 2>>, <<3>>}
    /\ [at |-> <<2, 2>>, res |-> TRUE] \in {meval.calls[a] : a \in 1..Len(meval.calls)}

(***************************************************************************)
(* internal/method: the generators the categories register.                *)
(***************************************************************************)
RuntimeImport == "github.com/netw-device-driver/ndd-runtime/apis/common/v1"
ResourceImport == "github.com/netw-device-driver/ndd-runtime/pkg/resource"
NameSpec == "Spec"
NameStatus == "Status"

NewSetActive(receiver, runtime) == New("SetActive", receiver, <<NameSpec, "Active">>, runtime)
NewGetActive(receiver, runtime) == New("GetActive", receiver, <<NameSpec, "Active">>, runtime)
NewSetConditions(receiver, runtime) == New("SetConditions", receiver, <<NameStatus, "SetConditions">>, runtime)
NewGetCondition(receiver, runtime) == New("GetCondition", receiver, <<NameStatus, "GetCondition">>, runtime)
NewSetDeletionPolicy(receiver, runtime) == New("SetDeletionPolicy", receiver, <<NameSpec, "DeletionPolicy">>, runtime)
NewGetDeletionPolicy(receiver, runtime) == New("GetDeletionPolicy", receiver, <<NameSpec, "DeletionPolicy">>, runtime)
NewInitializeTargetConditions(receiver, runtime) ==
    New("InitializeTargetConditions", receiver, <<NameStatus, "TargetConditions">>, runtime)
NewDeleteTargetCondition(receiver, runtime) ==
    New("DeleteTargetCondition", receiver, <<NameStatus, "TargetConditions">>, runtime)
NewGetTargetCondition(receiver, runtime) ==
    New("GetTargetCondition", receiver, <<NameStatus, "TargetConditions">>, runtime)
NewSetTargetConditions(receiver, runtime) ==
    New("SetTargetConditions", receiver, <<NameStatus, "TargetConditions">>, runtime)
NewSetUsers(receiver) == New("SetUsers", receiver, <<NameStatus, "Users">>, "")
NewGetUsers(receiver) == New("GetUsers", receiver, <<NameStatus, "Users">>, "")
NewManagedGetItems(receiver, resource) == New("GetItems", receiver, <<"Items">>, resource)
NewSetRootResourceReference(receiver, runtime) ==
    New("SetResourceReference", receiver, <<"ResourceReference">>, runtime)
NewGetRootResourceReference(receiver, runtime) ==
    New("GetResourceReference", receiver, <<"ResourceReference">>, runtime)
\* The generators below are registered by the driver but their source is not
\* in the tree; names and field paths are those of the design text 4.4.
NewGetTargetConfigReference(receiver, runtime) ==
    New("GetTargetConfigReference", receiver, <<NameSpec, "TargetConfigReference">>, runtime)
NewSetTargetConfigReference(receiver, runtime) ==
    New("SetTargetConfigReference", receiver, <<NameSpec, "TargetConfigReference">>, runtime)
NewSetRootTargetConfigReference(receiver, runtime) ==
    New("SetTargetConfigReference", receiver, <<"TargetConfigReference">>, runtime)
NewGetRootTargetConfigReference(receiver, runtime) ==
    New("GetTargetConfigReference", receiver, <<"TargetConfigReference">>, runtime)
NewTargetConfigUsageGetItems(receiver, resource) == New("GetItems", receiver, <<"Items">>, resource)

(***************************************************************************)
(* cmd/nddgen: the method.Set, destination filename and error text of each *)
(* category (a Go map literal is a function from its keys).                *)
(***************************************************************************)
\* The six-method set of the earlier driver, without the Active and
\* target-condition accessors.
ManagedMethodsShort ==
    [SetConditions |-> NewSetConditions("mg", RuntimeImport),
     GetCondition |-> NewGetCondition("mg", RuntimeImport),
     GetTargetConfigReference |-> NewGetTargetConfigReference("mg", RuntimeImport),
     SetTargetConfigReference |-> NewSetTargetConfigReference("mg", RuntimeImport),
     SetDeletionPolicy |-> NewSetDeletionPolicy("mg", RuntimeImport),
     GetDeletionPolicy |-> NewGetDeletionPolicy("mg", RuntimeImport)]

\* A set whose first two generators stand under each other's name.
ManagedMethodsMisnamed ==
    [SetActive |-> NewGetActive("mg", RuntimeImport),
     GetActive |-> NewSetActive("mg", RuntimeImport),
     SetConditions |-> NewSetConditions("mg", RuntimeImport),
     GetCondition |-> NewGetCondition("mg", RuntimeImport),
     GetTargetConfigReference |-> NewGetTargetConfigReference("mg", RuntimeImport),
     SetTargetConfigReference |-> NewSetTargetConfigReference("mg", RuntimeImport),
     SetDeletionPolicy |-> NewSetDeletionPolicy("mg", RuntimeImport),
     GetDeletionPolicy |-> NewGetDeletionPolicy("mg", RuntimeImport),
     InitializeTargetConditions |-> NewInitializeTargetConditions("mg", RuntimeImport),
     DeleteTargetCondition |-> NewDeleteTargetCondition("mg", RuntimeImport),
     GetTargetCondition |-> NewGetTargetCondition("mg", RuntimeImport),
     SetTargetConditions |-> NewSetTargetConditions("mg", RuntimeImport)]

ManagedMethods ==
    [SetActive |-> NewSetActive("mg", RuntimeImport),
     GetActive |-> NewGetActive("mg", RuntimeImport),
     SetConditions |-> NewSetConditions("mg", RuntimeImport),
     GetCondition |-> NewGetCondition("mg", RuntimeImport),
     GetTargetConfigReference |-> NewGetTargetConfigReference("mg", RuntimeImport),
     SetTargetConfigReference |-> NewSetTargetConfigReference("mg", RuntimeImport),
     SetDeletionPolicy |-> NewSetDeletionPolicy("mg", RuntimeImport),
     GetDeletionPolicy |-> NewGetDeletionPolicy("mg", RuntimeImport),
     InitializeTargetConditions |-> NewInitializeTargetConditions("mg", RuntimeImport),
     DeleteTargetCondition |-> NewDeleteTargetCondition("mg", RuntimeImport),
     GetTargetCondition |-> NewGetTargetCondition("mg", RuntimeImport),
     SetTargetConditions |-> NewSetTargetConditions("mg", RuntimeImport)]

ManagedListMethods == [GetItems |-> NewManagedGetItems("l", ResourceImport)]

TargetConfigMethods ==
    [SetUsers |-> NewSetUsers("p"),
     GetUsers |-> NewGetUsers("p"),
     SetConditions |-> NewSetConditions("p", RuntimeImport),
     GetCondition |-> NewGetCondition("p", RuntimeImport)]

TargetConfigUsageMethods ==
    [SetTargetConfigReference |-> NewSetRootTargetConfigReference("p", RuntimeImport),
     GetTargetConfigReference |-> NewGetRootTargetConfigReference("p", RuntimeImport),
     SetResourceReference |-> NewSetRootResourceReference("p", RuntimeImport),
     GetResourceReference |-> NewGetRootResourceReference("p", RuntimeImport)]

TargetConfigUsageListMethods == [GetItems |-> NewTargetConfigUsageGetItems("p", ResourceImport)]

MethodsOf(cat) ==
    CASE cat = "Managed" -> ManagedMethods
      [] cat = "ManagedList" -> ManagedListMethods
      [] cat = "TargetConfig" -> TargetConfigMethods
      [] cat = "TargetConfigUsage" -> TargetConfigUsageMethods
      [] cat = "TargetConfigUsageList" -> TargetConfigUsageListMethods

\* Every --filename-* flag left pointing at one and the same file.
FilenameShared(cat) == "zz_generated.managed.go"

\* the defaults of the --filename-* flags
Filename(cat) ==
    CASE cat = "Managed" -> "zz_generated.managed.go"
      [] cat = "ManagedList" -> "zz_generated.managedlist.go"
      [] cat = "TargetConfig" -> "zz_generated.tc.go"
      [] cat = "TargetConfigUsage" -> "zz_generated.tcu.go"
      [] cat = "TargetConfigUsageList" -> "zz_generated.tculist.go"

Filenames == {Filename(c) : c \in CategorySet}

errLoadPackages == "cannot load packages"
errReadheaderFile == "cannot read header file"
errLoadingPackages == "error loading packages using pattern"
errWriteManagedResourceMethod == "cannot write managed resource method set for package"
errWriteManagedResourceListMethod == "cannot write managed resource list method set for package"
errWriteTargetConfigMethod == "cannot write target config methods"
errWriteTargetConfigUsageMethod == "cannot write target config usage methods"
errWriteTargetConfigUsageListMethod == "cannot write target config usage list methods"

\* the text each Generate* function wraps the WriteMethods error with
CategoryErr(cat) ==
    CASE cat = "Managed" -> errWriteManagedResourceMethod
      [] cat = "ManagedList" -> errWriteManagedResourceListMethod
      [] cat = "TargetConfig" -> errWriteTargetConfigMethod
      [] cat = "TargetConfigUsage" -> errWriteTargetConfigUsageMethod
      [] cat = "TargetConfigUsageList" -> errWriteTargetConfigUsageListMethod

(***************************************************************************)
(* Errors. An error is its chain of messages, outermost first; a message   *)
(* is a sequence of text pieces (what fmt.Sprintf put together). Nil is    *)
(* the empty chain.                                                        *)
(***************************************************************************)
Nil == <<>>
ErrorOf(text) == <<<<text>>>>

\* errors.Wrap(err, message): nil when err is nil
Wrap(e, message) == IF e = Nil THEN Nil ELSE <<message>> \o e

\* errors.Cause(err): the innermost error of the chain
Cause(e) == <<e[Len(e)]>>

RECURSIVE ErrorString(_)
\* err.Error(): the messages of the chain joined by ": "
ErrorString(e) ==
    IF Len(e) = 1 THEN e[1] ELSE e[1] \o <<": ">> \o ErrorString(Tail(e))

\* fmt.Sprintf("%s : %s", a, b) for a text a and a string b
SprintfPair(a, b) == a \o <<" : ", b>>

\* The category error passed on without the package path.
ReturnedBare(e, pkgPath) == Wrap(e, ErrorString(e))

\* errors.Wrap(err, fmt.Sprintf("%s : %s", err, pkg.PkgPath)) in RunE
Returned(e, pkgPath) == Wrap(e, SprintfPair(ErrorString(e), pkgPath))

\* A driver that drops a category's error and goes on.
FailedNever(e) == FALSE

\* `if err := Generate...(...); err != nil`
Failed(e) == e # Nil

\* A driver that treats an unreadable header file as an empty header.
HeaderUnreadableIgnored(readErr) == FALSE

\* `if err != nil` after ioutil.ReadFile(headerFile)
HeaderUnreadable(readErr) == readErr # Nil

\* what the environment can answer
ErrLoad == ErrorOf("load: no such package")
ErrBrokenPackage == ErrorOf("syntax error in package")
ErrRedeclared == ErrorOf("method redeclared")
ErrReadFile == ErrorOf("open header: no such file")
ErrSink == ErrorOf("open destination: permission denied")
EnvErrors == {ErrLoad, ErrBrokenPackage, ErrReadFile, ErrSink}

(***************************************************************************)
(* The source tree and the generated files.                                *)
(***************************************************************************)
pattern == "./apis/..."
HeaderText == "// Copyright notice"

Src(name, fields, doc, before, methods) ==
    [name |-> name, fields |-> fields, doc |-> doc, before |-> before, methods |-> methods]

DualFields ==
    {Emb("TypeMeta", TypeTypeMeta), Emb("ObjectMeta", TypeObjectMeta),
     Field("Spec", "DualSpec", FALSE, FALSE, {Emb("ResourceSpec", TypeResourceSpec)}),
     Field("Status", "DualStatus", FALSE, FALSE,
           {Emb("ResourceStatus", TypeResourceStatus), Emb("TargetConfigStatus", TypeTargetConfigStatus)})}

\* the packages the pattern can select, in the order packages.Load lists them;
\* each package's declarations in the order of its scope's names
Catalogue ==
    <<[PkgPath |-> "apis/config",
       decls |-> <<Src("Cfg", TargetConfigFields, <<>>, <<>>, {}),
                   Src("Usage", UsageFields, <<>>, <<>>, {}),
                   Src("UsageList", {Emb("TypeMeta", TypeTypeMeta), ListMeta,
                                     Field("Items", "[]Usage", FALSE, TRUE, UsageFields)}, <<>>, <<>>, {})>>],
      [PkgPath |-> "apis/dual",
       decls |-> <<Src("Dual", DualFields, <<>>, <<>>, {})>>],
      [PkgPath |-> "apis/mixed",
       decls |-> <<Src("Custom", ManagedFields, <<TextLine>>, <<MarkerLine(DisableMarker, "true")>>,
                       {[name |-> "GetActive", file |-> "custom_types.go"],
                        [name |-> "DeepCopy", file |-> "zz_generated.deepcopy.go"]}),
                   Src("Off", ManagedFields, <<>>, <<TextLine, MarkerLine(DisableMarker, "false")>>, {}),
                   Src("Plain", {Named("Size", "int")}, <<>>, <<>>, {})>>],
      [PkgPath |-> "apis/solo",
       decls |-> <<Src("Widget", ManagedFields, <<TextLine>>, <<>>, {})>>],
      [PkgPath |-> "apis/widget",
       decls |-> <<Src("Widget", ManagedFields, <<>>, <<>>, {}),
                   Src("WidgetList", {Emb("TypeMeta", TypeTypeMeta), ListMeta,
                                      Field("Items", "[]Widget", FALSE, TRUE, ManagedFields)}, <<>>, <<>>, {})>>]>>

PkgPaths == {Catalogue[i].PkgPath : i \in 1..Len(Catalogue)}

\* the selections of at most MaxPkgs packages, in catalogue order
Trees ==
    {t \in UNION {[1..n -> 1..Len(Catalogue)] : n \in 1..MaxPkgs} :
        \A i \in 1..(Len(t) - 1) : t[i] < t[i + 1]}

NoFile == [present |-> FALSE, header |-> "", methods |-> <<>>]
DiskKeys == PkgPaths \X Filenames
NoFiles == [k \in DiskKeys |-> NoFile]

\* the methods the files of package path on disk d declare for type name
GeneratedMethods(d, path, name) ==
    UNION {{[name |-> d[<<path, fn>>].methods[i].method, file |-> fn] :
               i \in {j \in 1..Len(d[<<path, fn>>].methods) : d[<<path, fn>>].methods[j].type = name}} :
            fn \in Filenames}

\* the type checker rejects two declarations of one method on one type
Redeclared(d, src) ==
    \E k \in 1..Len(src.decls) :
        LET o == src.decls[k]
            all == o.methods \cup GeneratedMethods(d, src.PkgPath, o.name)
        IN  \/ \E a, b \in all : a.name = b.name /\ a.file # b.file
            \/ \E fn \in Filenames :
                 \E i, j \in 1..Len(d[<<src.PkgPath, fn>>].methods) :
                    /\ i # j
                    /\ d[<<src.PkgPath, fn>>].methods[i].type = o.name
                    /\ d[<<src.PkgPath, fn>>].methods[j].type = o.name
                    /\ d[<<src.PkgPath, fn>>].methods[i].method = d[<<src.PkgPath, fn>>].methods[j].method

\* one *packages.Package: hand-written and generated files type-checked together
LoadPackage(d, src, broken) ==
    [PkgPath |-> src.PkgPath,
     decls |-> [k \in 1..Len(src.decls) |->
                  [src.decls[k] EXCEPT !.methods = @ \cup GeneratedMethods(d, src.PkgPath, src.decls[k].name)]],
     Errors |-> (IF broken THEN <<ErrBrokenPackage>> ELSE <<>>)
                \o (IF Redeclared(d, src) THEN <<ErrRedeclared>> ELSE <<>>)]

(***************************************************************************)
(* internal/generate.WriteMethods (not in the source tree; from the design *)
(* text 4.5): every declaration of the package the matcher accepts gets    *)
(* the method set written into one file, which is saved when not empty.    *)
(***************************************************************************)
RECURSIVE WriteDecls(_, _, _, _, _, _, _)
WriteDecls(f, decls, k, ms, orders, matcher, filename) ==
    IF k > Len(decls) THEN f
    ELSE IF ~Matches(matcher, decls[k])
         THEN WriteDecls(f, decls, k + 1, ms, orders, matcher, filename)
         ELSE WriteDecls(Write(f, ms, orders[k], decls[k], filename),
                         decls, k + 1, ms, orders, matcher, filename)

\* the declarations of p that opts.Matches accepts
Matching(p, matcher) == {k \in 1..Len(p.decls) : Matches(matcher, p.decls[k])}

\* the jen.File WriteMethods has built when it decides whether to save;
\* orders[k] is the map order of the Write call for declaration k
WriteMethods(p, ms, filename, matcher, orders) ==
    WriteDecls(<<>>, p.decls, 1, ms, orders, matcher, filename)

RECURSIVE SeqOf(_)
SeqOf(S) == IF S = {} THEN <<>> ELSE LET x == CHOOSE y \in S : TRUE IN <<x>> \o SeqOf(S \ {x})
Reverse(q) == [i \in 1..Len(q) |-> q[Len(q) + 1 - i]]
Rotate(q) == IF q = <<>> THEN q ELSE Tail(q) \o <<Head(q)>>

\* Orders a map range may yield: all of them for a small map, three of them
\* for a larger one.
SomeRangeOrders(S) ==
    IF Cardinality(S) <= 2 THEN RangeOrders(S)
    ELSE {SeqOf(S), Reverse(SeqOf(S)), Rotate(SeqOf(S))}

(***************************************************************************)
(* cmd/nddgen: genmethodsetCmd.RunE, one action per step.                  *)
(***************************************************************************)
Init ==
    /\ tree \in {[i \in 1..Len(t) |-> Catalogue[t[i]]] : t \in Trees}
    /\ headerFile \in {"", "hack/boilerplate.go.txt"}
    /\ disk = NoFiles
    /\ run = 0
    /\ pc = "idle"
    /\ pkgs = <<>>
    /\ pi = 0
    /\ err = Nil
    /\ steps = <<>>
    /\ sinkCalls = <<>>
    /\ written = NoFiles
    /\ disk0 = NoFiles
    /\ hist = <<>>
    /\ header = [read |-> "no", text |-> ""]
    /\ faults = 0
    /\ WriteIdle
    /\ MatchIdle
    /\ ExtraIdle

\* the command is invoked (again)
Invoke ==
    /\ pc \in {"idle", "done", "failed"}
    /\ run < MaxRuns
    /\ run' = run + 1
    /\ pc' = "load"
    /\ pkgs' = <<>>
    /\ pi' = 0
    /\ err' = Nil
    /\ steps' = <<>>
    /\ sinkCalls' = <<>>
    /\ written' = NoFiles
    /\ disk0' = disk
    /\ header' = [read |-> "no", text |-> ""]
    /\ hist' = IF run = 0 THEN hist ELSE Append(hist, [err |-> err, written |-> written])
    /\ UNCHANGED <<tree, headerFile, disk, faults, wvars, mvars, xvars>>

\* packages.Load fails as a whole
LoadFails ==
    /\ pc = "load"
    /\ faults < MaxFaults
    /\ faults' = faults + 1
    /\ err' = Wrap(ErrLoad, SprintfPair(<<errLoadPackages>>, pattern))
    /\ pc' = "failed"
    /\ UNCHANGED <<tree, headerFile, disk, run, pkgs, pi, steps, sinkCalls, written, disk0, hist, header, wvars, mvars, xvars>>

\* packages.Load returns the packages; at most one of them is broken by the environment
Load ==
    /\ pc = "load"
    /\ \E broken \in {0} \cup {i \in 1..Len(tree) : faults < MaxFaults} :
          /\ pkgs' = [i \in 1..Len(tree) |-> LoadPackage(disk, tree[i], i = broken)]
          /\ faults' = IF broken = 0 THEN faults ELSE faults + 1
    /\ pc' = "header"
    /\ UNCHANGED <<tree, headerFile, disk, run, pi, err, steps, sinkCalls, written, disk0, hist, header, wvars, mvars, xvars>>

\* header := ""; if headerFile != "" { ioutil.ReadFile ... }
ReadHeader ==
    /\ pc = "header"
    /\ \E readErr \in {Nil} \cup {e \in {ErrReadFile} : headerFile # "" /\ faults < MaxFaults} :
          IF headerFile # "" /\ HeaderUnreadable(readErr)
          THEN /\ err' = Wrap(readErr, SprintfPair(<<errReadheaderFile>>, headerFile))
               /\ header' = [read |-> "failed", text |-> ""]
               /\ faults' = faults + 1
               /\ pc' = "failed"
               /\ pi' = pi
          ELSE /\ err' = err
               /\ header' = IF headerFile = "" THEN [read |-> "none", text |-> ""]
                            ELSE IF readErr = Nil THEN [read |-> "ok", text |-> HeaderText]
                            ELSE [read |-> "failed", text |-> ""]
               /\ faults' = IF readErr = Nil THEN faults ELSE faults + 1
               /\ pc' = "range"
               /\ pi' = 1
    /\ UNCHANGED <<tree, headerFile, disk, run, pkgs, steps, sinkCalls, written, disk0, hist, wvars, mvars, xvars>>

\* A loop that never looks at pkg.Errors.
LoadErrorsIgnored(ps, i) == <<>>

\* A check of every package's errors before the first package is generated.
LoadErrorsOfAny(ps, i) ==
    LET bad == {j \in 1..Len(ps) : ps[j].Errors # <<>>}
    IN  IF bad = {} THEN <<>> ELSE ps[CHOOSE j \in bad : TRUE].Errors

\* `for _, err := range pkg.Errors`: the errors the loop sees at package i
LoadErrors(ps, i) == ps[i].Errors

\* A driver that loads package i again from the files now on disk before
\* each category.
PkgReloaded(ps, d, t, i) == LoadPackage(d, t[i], FALSE)

\* `pkg` of `for _, pkg := range pkgs`: the package packages.Load returned,
\* whatever the disk d holds by now
Pkg(ps, d, t, i) == ps[i]

\* for _, pkg := range pkgs { for _, err := range pkg.Errors { return ... } ... }
Range ==
    /\ pc = "range"
    /\ IF pi > Len(pkgs)
       THEN /\ pc' = "done"
            /\ err' = Nil
       ELSE IF LoadErrors(pkgs, pi) # <<>>
            THEN /\ pc' = "failed"
                 /\ err' = Wrap(LoadErrors(pkgs, pi)[1], SprintfPair(<<errLoadingPackages>>, pattern))
            ELSE /\ pc' = Categories[1]
                 /\ err' = err
    /\ UNCHANGED <<tree, headerFile, disk, run, pkgs, pi, steps, sinkCalls, written, disk0, hist, header, faults, wvars, mvars, xvars>>

NextCategory(cat) ==
    LET k == CHOOSE i \in 1..Len(Categories) : Categories[i] = cat
    IN  IF k < Len(Categories) THEN Categories[k + 1] ELSE "range"

\* `if err := GenerateX(filenameX, header, pkg); err != nil { return errors.Wrap(...) }`
\* with GenerateX building the set and the matcher, calling generate.WriteMethods
\* and wrapping its error.
Generate(cat) ==
    /\ \E orders \in [Matching(Pkg(pkgs, disk, tree, pi), CategoryMatcher(cat)) -> SomeRangeOrders(DOMAIN MethodsOf(cat))],
          saved \in BOOLEAN :
        \E f \in {WriteMethods(Pkg(pkgs, disk, tree, pi), MethodsOf(cat), Filename(cat), CategoryMatcher(cat), orders)} :
          LET p == Pkg(pkgs, disk, tree, pi)
              key == <<p.PkgPath, Filename(cat)>>
              werr == IF f # <<>> /\ ~saved THEN ErrSink ELSE Nil
              gerr == Wrap(werr, <<CategoryErr(cat)>>)
              file == [present |-> TRUE, header |-> header.text, methods |-> f]
          IN  /\ saved \/ (f # <<>> /\ faults < MaxFaults)
              /\ faults' = IF werr = Nil THEN faults ELSE faults + 1
              /\ sinkCalls' = IF f # <<>> THEN Append(sinkCalls, key) ELSE sinkCalls
              /\ disk' = IF f # <<>> /\ saved THEN [disk EXCEPT ![key] = file] ELSE disk
              /\ written' = IF f # <<>> /\ saved THEN [written EXCEPT ![key] = file] ELSE written
              /\ steps' = Append(steps, [pkg |-> pi, cat |-> cat, err |-> gerr])
              /\ IF Failed(gerr)
                 THEN /\ err' = Returned(gerr, p.PkgPath)
                      /\ pc' = "failed"
                      /\ pi' = pi
                 ELSE /\ err' = err
                      /\ pc' = NextCategory(cat)
                      /\ pi' = IF NextCategory(cat) = "range" THEN pi + 1 ELSE pi
    /\ UNCHANGED <<tree, headerFile, run, pkgs, disk0, hist, header, wvars, mvars, xvars>>

GenerateManaged ==
    /\ pc = "Managed"
    /\ Generate("Managed")

GenerateManagedList ==
    /\ pc = "ManagedList"
    /\ Generate("ManagedList")

GenerateTargetConfig ==
    /\ pc = "TargetConfig"
    /\ Generate("TargetConfig")

GenerateTargetConfigUsage ==
    /\ pc = "TargetConfigUsage"
    /\ Generate("TargetConfigUsage")

GenerateTargetConfigUsageList ==
    /\ pc = "TargetConfigUsageList"
    /\ Generate("TargetConfigUsageList")

Next ==
    \/ Invoke
    \/ LoadFails
    \/ Load
    \/ ReadHeader
    \/ Range
    \/ GenerateManaged
    \/ GenerateManagedList
    \/ GenerateTargetConfig
    \/ GenerateTargetConfigUsage
    \/ GenerateTargetConfigUsageList

Spec == Init /\ [][Next]_vars

Finished == pc \in {"done", "failed"}

\* the run ended in an error the environment caused
EnvironmentFailed == err # Nil /\ Cause(err) \in EnvErrors

\* C3: a second invocation over the same source tree and header, following
\* an invocation that succeeded, succeeds too and saves the same files with
\* the same methods in the same order.
C3_SecondRunRepeatsFirst ==
    (run >= 2 /\ Finished /\ hist[run - 1].err = Nil /\ ~EnvironmentFailed)
        => /\ err = Nil
           /\ written = hist[run - 1].written
           /\ disk = disk0

ManagedTwelve ==
    <<"DeleteTargetCondition", "GetActive", "GetCondition", "GetDeletionPolicy",
      "GetTargetCondition", "GetTargetConfigReference", "InitializeTargetConditions",
      "SetActive", "SetConditions", "SetDeletionPolicy", "SetTargetConditions",
      "SetTargetConfigReference">>

\* a package of one declaration that has the Managed shape, no disable
\* marker and no method yet
SoleManaged(p) ==
    /\ Len(p.decls) = 1
    /\ ManagedShape(p.decls[1].fields)
    /\ ~Disabled(p.decls[1])
    /\ p.decls[1].methods = {}

\* C7: for a package of one Managed declaration without disable marker and
\* without methods, the Managed category saves exactly the twelve methods of
\* the Managed list, each once, in alphabetical order, all on that declaration.
C7_ManagedTwelveMethods ==
    \A i \in 1..Len(steps) :
        (steps[i].cat = "Managed" /\ steps[i].err = Nil /\ SoleManaged(pkgs[steps[i].pkg]))
            => LET p == pkgs[steps[i].pkg]
                   f == written[<<p.PkgPath, "zz_generated.managed.go">>]
               IN  /\ f.present
                   /\ MethodNames(f.methods) = ManagedTwelve
                   /\ \A k \in 1..Len(f.methods) : f.methods[k].type = p.decls[1].name

C7_Witness ==
    \E i \in 1..Len(steps) :
        /\ steps[i].cat = "Managed"
        /\ steps[i].err = Nil
        /\ SoleManaged(pkgs[steps[i].pkg])
        /\ pkgs[steps[i].pkg].PkgPath = "apis/solo"

\* C8: the steps of a run are the categories of the packages in order, each
\* at most once; a step that returned an error is the last step of the run,
\* the run has failed with that error in its chain, and a run that reached
\* its end without a failing step returns no error.
C8_FailFast ==
    /\ \A i \in 1..Len(steps) :
          /\ steps[i].pkg = ((i - 1) \div Len(Categories)) + 1
          /\ steps[i].cat = Categories[((i - 1) % Len(Categories)) + 1]
          /\ i < Len(steps) => steps[i].err = Nil
    /\ (steps # <<>> /\ steps[Len(steps)].err # Nil)
          => /\ pc = "failed"
             /\ Len(err) = Len(steps[Len(steps)].err) + 1
             /\ Tail(err) = steps[Len(steps)].err
    /\ pc = "failed" => err # Nil
    /\ pc = "done" => /\ err = Nil
                      /\ Len(steps) = Len(Categories) * Len(pkgs)

C8_Witness ==
    /\ pc = "failed"
    /\ Len(steps) >= 2
    /\ steps[Len(steps)].err # Nil
    /\ steps[Len(steps)].cat = "TargetConfig"
    /\ steps[Len(steps)].pkg < Len(pkgs)

\* C9: when the header file cannot be read the run has failed with the
\* header error, no category was run, nothing was handed to the sink and the
\* generated files are as they were before the run.
C9_HeaderFailureBeforeGeneration ==
    header.read = "failed"
        => /\ pc = "failed"
           /\ Cause(err) = ErrReadFile
           /\ err[1] = <<errReadheaderFile, " : ", headerFile>>
           /\ steps = <<>>
           /\ sinkCalls = <<>>
           /\ written = NoFiles
           /\ disk = disk0

C9_Witness ==
    /\ header.read = "failed"
    /\ pc = "failed"
    /\ Len(pkgs) >= 1

Pieces(text) == {text[i] : i \in 1..Len(text)}

CategoryText ==
    [Managed |-> "cannot write managed resource method set for package",
     ManagedList |-> "cannot write managed resource list method set for package",
     TargetConfig |-> "cannot write target config methods",
     TargetConfigUsage |-> "cannot write target config usage methods",
     TargetConfigUsageList |-> "cannot write target config usage list methods"]

\* C10: when saving a category's file failed, the run's error has the sink's
\* error as its cause and its text holds that category's own message and the
\* package path; the save was attempted once.
C10_SinkErrorWrapped ==
    (pc = "failed" /\ Cause(err) = ErrSink)
        => LET last == steps[Len(steps)]
               p == pkgs[last.pkg]
               text == Pieces(ErrorString(err))
           IN  /\ CategoryText[last.cat] \in text
               /\ \A c \in CategorySet \ {last.cat} : CategoryText[c] \notin text
               /\ p.PkgPath \in text
               /\ sinkCalls[Len(sinkCalls)] = <<p.PkgPath, Filename(last.cat)>>
               /\ \A i, j \in 1..Len(sinkCalls) : sinkCalls[i] = sinkCalls[j] => i = j

C10_Witness ==
    /\ pc = "failed"
    /\ Cause(err) = ErrSink
    /\ steps[Len(steps)].cat = "TargetConfig"
    /\ Len(sinkCalls) >= 2

CategoryFile ==
    [Managed |-> "zz_generated.managed.go",
     ManagedList |-> "zz_generated.managedlist.go",
     TargetConfig |-> "zz_generated.tc.go",
     TargetConfigUsage |-> "zz_generated.tcu.go",
     TargetConfigUsageList |-> "zz_generated.tculist.go"]

StepsOf(p, c) == {i \in 1..Len(steps) : steps[i].pkg = p /\ steps[i].cat = c}

\* C11: the categories of a package are run in the order Managed,
\* ManagedList, TargetConfig, TargetConfigUsage, TargetConfigUsageList, none
\* twice; a run that reaches its end has run each of the five exactly once
\* for every loaded package; every file handed to the sink is the file of
\* the category that wrote it, no file is handed over twice, and a package
\* has at most five files.
C11_FiveCategoriesInTurn ==
    /\ \A i, j \in 1..Len(steps) :
          (i < j /\ steps[i].pkg = steps[j].pkg)
              => \E a, b \in 1..Len(Categories) :
                    /\ a < b
                    /\ Categories[a] = steps[i].cat
                    /\ Categories[b] = steps[j].cat
    /\ \A p \in 1..Len(pkgs) : \A c \in CategorySet : Cardinality(StepsOf(p, c)) <= 1
    /\ pc = "done" =>
          \A p \in 1..Len(pkgs) : \A c \in CategorySet : Cardinality(StepsOf(p, c)) = 1
    /\ \A k \in 1..Len(sinkCalls) :
          /\ \E i \in 1..Len(steps) :
                /\ pkgs[steps[i].pkg].PkgPath = sinkCalls[k][1]
                /\ CategoryFile[steps[i].cat] = sinkCalls[k][2]
          /\ \A l \in 1..Len(sinkCalls) : sinkCalls[k] = sinkCalls[l] => k = l
    /\ \A p \in 1..Len(pkgs) :
          /\ Cardinality({k \in 1..Len(sinkCalls) : sinkCalls[k][1] = pkgs[p].PkgPath}) <= 5
          /\ Cardinality({fn \in Filenames : written[<<pkgs[p].PkgPath, fn>>].present}) <= 5

C11_Witness ==
    /\ pc = "done"
    /\ Len(pkgs) = 2
    /\ Len(steps) = 10
    /\ Len(sinkCalls) = 5
    /\ written[<<"apis/config", "zz_generated.tc.go">>].present
    /\ written[<<"apis/config", "zz_generated.tcu.go">>].present
    /\ written[<<"apis/config", "zz_generated.tculist.go">>].present

(***************************************************************************)
(* The GetItems method that NewManagedGetItems (and its target-config-     *)
(* usage twin) writes, at run time:                                        *)
(*     items := make([]resource.Managed, len(l.Items))                     *)
(*     for i := range l.Items { items[i] = &l.Items[i] }                   *)
(*     return items                                                        *)
(* Memory is a sequence of cells; l.Items is the sequence of the addresses *)
(* of its slots; a returned slice is a fresh sequence of pointers.         *)
(***************************************************************************)
ItemValues == {"a", "b"}

\* v := l.Items[i]; items[i] = &v -- a pointer to a copy at the next free address
ItemCopyRef(l, path, i, free) == free + i

\* &l.Items[i]: the address of slot i of the field the generator is bound to
ItemRef(l, path, i, free) == l[path[1]][i]

\* the value `items` the emitted body returns for receiver l
GetItemsBody(gen, l, free) ==
    [i \in 1..Len(l[gen.path[1]]) |-> ItemRef(l, gen.path, i, free)]

\* memory after the body ran: cells a pointer was taken to exist
CellsAfter(mem, l, entries) ==
    [a \in 1..(Len(mem) + Cardinality({i \in 1..Len(entries) : entries[i] > Len(mem)})) |->
        IF a <= Len(mem) THEN mem[a] ELSE mem[l.Items[a - Len(mem)]]]

ItemsGenerators == {ManagedListMethods["GetItems"], TargetConfigUsageListMethods["GetItems"]}

InitItems ==
    /\ \E n \in 0..MaxItems :
          /\ cells \in [1..n -> ItemValues]
          /\ lItems = [i \in 1..n |-> i]
    /\ got = <<>>
    /\ touched = [n |-> 0]
    /\ WriteIdle
    /\ MatchIdle
    /\ DriverIdle
    /\ TargetConditionsIdle
    /\ EmitIdle

\* l.GetItems()
CallGetItems ==
    /\ Len(got) < MaxGets
    /\ \E gen \in ItemsGenerators :
          LET entries == GetItemsBody(gen, [Items |-> lItems], Len(cells))
          IN  /\ got' = Append(got, [alloc |-> Len(got) + 1, method |-> gen.emits,
                                     entries |-> entries])
              /\ cells' = CellsAfter(cells, [Items |-> lItems], entries)
    /\ UNCHANGED <<lItems, touched, wvars, mvars, dvars, tvars, evars>>

\* *items[i] = v for a slice `items` some GetItems call returned
WriteThrough ==
    /\ touched.n < MaxTouches
    /\ \E k \in 1..Len(got) : \E i \in 1..Len(got[k].entries) : \E v \in ItemValues :
          /\ cells' = [cells EXCEPT ![got[k].entries[i]] = v]
          /\ touched' = [n |-> touched.n + 1, call |-> k, i |-> i, value |-> v,
                         before |-> [j \in 1..Len(lItems) |-> cells[lItems[j]]]]
    /\ UNCHANGED <<lItems, got, wvars, mvars, dvars, tvars, evars>>

NextItems == CallGetItems \/ WriteThrough

SpecItems == InitItems /\ [][NextItems]_vars

ItemsNow == [j \in 1..Len(lItems) |-> cells[lItems[j]]]

\* C12: every slice GetItems returned is an allocation of its own, has the
\* length of Items and holds at position i the address of Items[i]; the
\* last write made through entry i of a returned slice is what Items[i] now
\* holds, and the other elements of Items are as they were.
C12_GetItemsReferences ==
    /\ \A k \in 1..Len(got) :
          /\ Len(got[k].entries) = Len(lItems)
          /\ \A i \in 1..Len(lItems) : got[k].entries[i] = lItems[i]
          /\ \A j \in 1..Len(got) : got[j].alloc = got[k].alloc => j = k
    /\ touched.n > 0 => ItemsNow = [touched.before EXCEPT ![touched.i] = touched.value]

C12_Witness ==
    /\ Len(lItems) = 3
    /\ Len(got) = 2
    /\ touched.n > 0
    /\ touched.call = 2
    /\ touched.i = 3
    /\ touched.before[3] # touched.value
    /\ cells[lItems[3]] = touched.value

(***************************************************************************)
(* The target-condition methods written for a Managed declaration, at run  *)
(* time. mg.Status.TargetConditions is a map[string]*TargetConditions: nil *)
(* in a new object, otherwise target -> entry. An entry is the allocation  *)
(* new(TargetConditions) made and the SetConditions calls it received      *)
(* (the merge itself is the runtime library's).                            *)
(***************************************************************************)
Targets == {"leaf1", "leaf2"}
ConditionKinds == {"Ready", "Synced"}
NilMap == [nil |-> TRUE, entries |-> <<>>]

\* mg.Status.TargetConditions = make(map[string]*nddv1.TargetConditions)
InitializeTargetConditionsBody(m) == [nil |-> FALSE, entries |-> <<>>]

\* delete(mg.Status.TargetConditions, target): no-op on a nil map
DeleteTargetConditionBody(m, target) ==
    [m EXCEPT !.entries = [t \in (DOMAIN @) \ {target} |-> @[t]]]

\* A body without the nil test: a new entry on every call.
SetTargetConditionsAlwaysNew(m, target, c, fresh) ==
    [m EXCEPT !.entries =
        [t \in (DOMAIN @) \cup {target} |->
            IF t = target THEN [alloc |-> fresh, conds |-> <<c>>] ELSE @[t]]]

\* if mg.Status.TargetConditions[target] == nil {
\*     mg.Status.TargetConditions[target] = new(nddv1.TargetConditions) }
\* mg.Status.TargetConditions[target].SetConditions(c...)
SetTargetConditionsBody(m, target, c, fresh) ==
    LET entries ==
            IF target \notin DOMAIN m.entries
            THEN [t \in (DOMAIN m.entries) \cup {target} |->
                    IF t = target THEN [alloc |-> fresh, conds |-> <<>>] ELSE m.entries[t]]
            ELSE m.entries
    IN  [m EXCEPT !.entries = [entries EXCEPT ![target].conds = Append(@, c)]]

\* the assignment to an entry of a nil map panics
SetTargetConditionsPanics(m, target) == m.nil /\ target \notin DOMAIN m.entries

\* the entry mg.Status.TargetConditions[target] reads: 0 for a nil pointer
GetTargetConditionBody(m, target) ==
    IF target \in DOMAIN m.entries THEN m.entries[target].alloc ELSE 0

Panicked == tlog # <<>> /\ tlog[Len(tlog)].panicked

Logged(op, target, c) == [op |-> op, target |-> target, c |-> c, panicked |-> FALSE]

InitTargetConditions ==
    /\ tconds = NilMap
    /\ tlog = <<>>
    /\ tallocs = 0
    /\ tret = [asked |-> FALSE]
    /\ WriteIdle
    /\ MatchIdle
    /\ DriverIdle
    /\ ItemsIdle
    /\ EmitIdle

InitializeTargetConditions ==
    /\ Len(tlog) < MaxCalls
    /\ ~Panicked
    /\ tconds' = InitializeTargetConditionsBody(tconds)
    /\ tlog' = Append(tlog, Logged("InitializeTargetConditions", "", ""))
    /\ UNCHANGED <<tallocs, tret, wvars, mvars, dvars, ivars, evars>>

DeleteTargetCondition ==
    /\ Len(tlog) < MaxCalls
    /\ ~Panicked
    /\ \E target \in Targets :
          /\ tconds' = DeleteTargetConditionBody(tconds, target)
          /\ tlog' = Append(tlog, Logged("DeleteTargetCondition", target, ""))
    /\ UNCHANGED <<tallocs, tret, wvars, mvars, dvars, ivars, evars>>

SetTargetConditions ==
    /\ Len(tlog) < MaxCalls
    /\ ~Panicked
    /\ \E target \in Targets, c \in ConditionKinds :
          IF SetTargetConditionsPanics(tconds, target)
          THEN /\ tlog' = Append(tlog, [Logged("SetTargetConditions", target, c) EXCEPT !.panicked = TRUE])
               /\ UNCHANGED <<tconds, tallocs>>
          ELSE /\ tconds' = SetTargetConditionsBody(tconds, target, c, tallocs + 1)
               /\ tallocs' = IF target \in DOMAIN tconds.entries THEN tallocs ELSE tallocs + 1
               /\ tlog' = Append(tlog, Logged("SetTargetConditions", target, c))
    /\ UNCHANGED <<tret, wvars, mvars, dvars, ivars, evars>>

GetTargetCondition ==
    /\ ~Panicked
    /\ \E target \in Targets :
          tret' = [asked |-> TRUE, target |-> target, entry |-> GetTargetConditionBody(tconds, target)]
    /\ UNCHANGED <<tconds, tlog, tallocs, wvars, mvars, dvars, ivars, evars>>

NextTargetConditions ==
    \/ InitializeTargetConditions
    \/ DeleteTargetCondition
    \/ SetTargetConditions
    \/ GetTargetCondition

SpecTargetConditions == InitTargetConditions /\ [][NextTargetConditions]_vars

Max(S) == IF S = {} THEN 0 ELSE CHOOSE i \in S : \A j \in S : j <= i

LastInitialize == Max({i \in 1..Len(tlog) : tlog[i].op = "InitializeTargetConditions"})

LastDelete(target) ==
    Max({i \in 1..Len(tlog) : tlog[i].op = "DeleteTargetCondition" /\ tlog[i].target = target})

\* the SetTargetConditions calls for target made after position from
SetsSince(target, from) ==
    {i \in (from + 1)..Len(tlog) : tlog[i].op = "SetTargetConditions" /\ tlog[i].target = target}

\* the calls that found no entry for their target and made one
Creating ==
    {i \in 1..Len(tlog) :
        /\ tlog[i].op = "SetTargetConditions"
        /\ ~tlog[i].panicked
        /\ \A k \in 1..(i - 1) :
              (tlog[k].op = "SetTargetConditions" /\ tlog[k].target = tlog[i].target)
                  => \E d \in (k + 1)..(i - 1) :
                        \/ tlog[d].op = "InitializeTargetConditions"
                        \/ tlog[d].op = "DeleteTargetCondition" /\ tlog[d].target = tlog[i].target}

\* C19: once InitializeTargetConditions was called, the map holds an entry
\* for a target exactly when SetTargetConditions was called for it after
\* the last InitializeTargetConditions and after the last
\* DeleteTargetCondition of that target; that entry was allocated by the
\* first of those calls and received the conditions of all of them; no
\* other call allocated, and no two targets share an entry.
C19_TargetConditionEntries ==
    LastInitialize > 0 =>
        /\ ~Panicked
        /\ ~tconds.nil
        /\ DOMAIN tconds.entries \subseteq Targets
        /\ tallocs = Cardinality(Creating)
        /\ \A target \in Targets :
              LET from == Max({LastInitialize, LastDelete(target)})
                  sets == SetsSince(target, from)
              IN  /\ target \in DOMAIN tconds.entries <=> sets # {}
                  /\ sets # {} =>
                        /\ Len(tconds.entries[target].conds) = Cardinality(sets)
                        /\ \A i \in sets :
                              tconds.entries[target].conds[Cardinality(SetsSince(target, from) \cap 1..i)]
                                  = tlog[i].c
                        /\ tconds.entries[target].alloc
                              = Cardinality({k \in Creating : k <= Max({0} \cup {i \in sets : \A j \in sets : i <= j})})
                        /\ \A other \in (DOMAIN tconds.entries) \ {target} :
                              tconds.entries[other].alloc # tconds.entries[target].alloc

\* leaf1 set twice into one entry, leaf2 set, and only leaf2 deleted
C19_Witness ==
    /\ Len(tlog) = 4
    /\ tlog[1].op = "InitializeTargetConditions"
    /\ tlog[2].op = "SetTargetConditions" /\ tlog[2].target = "leaf1"
    /\ tlog[3].op = "SetTargetConditions" /\ tlog[3].target = "leaf1"
    /\ tlog[4].op = "DeleteTargetCondition" /\ tlog[4].target = "leaf2"
    /\ DOMAIN tconds.entries = {"leaf1"}
    /\ Len(tconds.entries["leaf1"].conds) = 2
    /\ tallocs = 1

(***************************************************************************)
(* The generators of one category applied to two declarations.             *)
(***************************************************************************)
Extra == Named("Extra", "string")

EmitFields ==
    {ManagedFields, DualFields, ManagedFields \cup {Extra},
     ManagedFields \cup {Emb("TargetConfigUsage", TypeTargetConfigUsage)},
     TargetConfigFields, TargetConfigFields \cup {Extra},
     UsageFields, UsageFields \cup {Extra},
     {Emb("TypeMeta", TypeTypeMeta), ListMeta, Field("Items", "[]Widget", FALSE, TRUE, ManagedFields)},
     {Emb("TypeMeta", TypeTypeMeta), Field("Items", "[]Widget", FALSE, TRUE, DualFields)},
     {Emb("TypeMeta", TypeTypeMeta), ListMeta, Field("Items", "[]Usage", FALSE, TRUE, UsageFields)},
     {Emb("TypeMeta", TypeTypeMeta), Extra, Field("Items", "[]Usage", FALSE, TRUE, UsageFields)}}

EmitDecls ==
    {Src(name, fs, doc, <<>>, {}) :
        name \in {"Widget", "Gadget"}, fs \in EmitFields, doc \in {<<>>, <<TextLine>>}}

InitEmit ==
    /\ eobj \in [1..2 -> EmitDecls]
    /\ eout = <<>>
    /\ WriteIdle
    /\ MatchIdle
    /\ DriverIdle
    /\ ItemsIdle
    /\ TargetConditionsIdle

\* the method set of a category that accepts both declarations, written for
\* each of them into a file of its own
EmitBoth ==
    /\ eout = <<>>
    /\ \E cat \in CategorySet :
          /\ \A i \in 1..2 : Matches(CategoryMatcher(cat), eobj[i])
          /\ \E orders \in [1..2 -> SomeRangeOrders(DOMAIN MethodsOf(cat))] :
                eout' = [i \in 1..2 |->
                            [cat |-> cat,
                             f |-> Write(<<>>, MethodsOf(cat), orders[i], eobj[i], Filename(cat))]]
    /\ UNCHANGED <<eobj, wvars, mvars, dvars, ivars, tvars>>

NextEmit == EmitBoth

SpecEmit == InitEmit /\ [][NextEmit]_vars

\* the field path of every method of every category
FieldPaths ==
    [Managed |->
        [SetActive |-> <<"Spec", "Active">>,
         GetActive |-> <<"Spec", "Active">>,
         SetConditions |-> <<"Status", "SetConditions">>,
         GetCondition |-> <<"Status", "GetCondition">>,
         GetTargetConfigReference |-> <<"Spec", "TargetConfigReference">>,
         SetTargetConfigReference |-> <<"Spec", "TargetConfigReference">>,
         SetDeletionPolicy |-> <<"Spec", "DeletionPolicy">>,
         GetDeletionPolicy |-> <<"Spec", "DeletionPolicy">>,
         InitializeTargetConditions |-> <<"Status", "TargetConditions">>,
         DeleteTargetCondition |-> <<"Status", "TargetConditions">>,
         GetTargetCondition |-> <<"Status", "TargetConditions">>,
         SetTargetConditions |-> <<"Status", "TargetConditions">>],
     ManagedList |-> [GetItems |-> <<"Items">>],
     TargetConfig |->
        [SetUsers |-> <<"Status", "Users">>,
         GetUsers |-> <<"Status", "Users">>,
         SetConditions |-> <<"Status", "SetConditions">>,
         GetCondition |-> <<"Status", "GetCondition">>],
     TargetConfigUsage |->
        [SetTargetConfigReference |-> <<"TargetConfigReference">>,
         GetTargetConfigReference |-> <<"TargetConfigReference">>,
         SetResourceReference |-> <<"ResourceReference">>,
         GetResourceReference |-> <<"ResourceReference">>],
     TargetConfigUsageList |-> [GetItems |-> <<"Items">>]]

Unnamed(f) == [j \in 1..Len(f) |-> [f[j] EXCEPT !.type = ""]]

\* C20: what a category's generators write for a declaration is fixed by
\* the declaration's name: two accepted declarations of one name get the
\* same methods whatever their fields, two of different names get methods
\* that differ in the receiver type only, and every method goes by the
\* field path of its generator.
C20_EmittedFromNameOnly ==
    eout # <<>> =>
        /\ eobj[1].name = eobj[2].name => eout[1].f = eout[2].f
        /\ Unnamed(eout[1].f) = Unnamed(eout[2].f)
        /\ \A i \in 1..2 : \A j \in 1..Len(eout[i].f) :
              /\ eout[i].f[j].type = eobj[i].name
              /\ eout[i].f[j].path = FieldPaths[eout[i].cat][eout[i].f[j].method]
        /\ \A i \in 1..2 : Len(eout[i].f) = Cardinality(DOMAIN FieldPaths[eout[i].cat])

C20_Witness ==
    /\ eout # <<>>
    /\ eout[1].cat = "Managed"
    /\ eobj[1].name = eobj[2].name
    /\ eobj[1].fields = ManagedFields
    /\ eobj[2].fields = ManagedFields \cup {Emb("TargetConfigUsage", TypeTargetConfigUsage)}
    /\ Len(eout[1].f) = 12
    /\ eout[1].f = eout[2].f

(***************************************************************************)
(* The run as a whole: load errors, the filter's inventory, the abort.     *)
(***************************************************************************)
\* every generated file of package path is as the run found it
Untouched(path) ==
    \A fn \in Filenames :
        /\ disk[<<path, fn>>] = disk0[<<path, fn>>]
        /\ ~written[<<path, fn>>].present

\* every generated file of package path is as the run found it or is the
\* file a category of this run saved, under the header of this run
Intact(path) ==
    \A fn \in Filenames :
        IF written[<<path, fn>>].present
        THEN /\ disk[<<path, fn>>] = written[<<path, fn>>]
             /\ written[<<path, fn>>].methods # <<>>
             /\ written[<<path, fn>>].header = header.text
             /\ \E i \in 1..Len(steps) :
                   /\ steps[i].err = Nil
                   /\ pkgs[steps[i].pkg].PkgPath = path
                   /\ Filename(steps[i].cat) = fn
        ELSE disk[<<path, fn>>] = disk0[<<path, fn>>]

\* C21: when packages.Load fails the run has failed with an error whose text
\* names the pattern, before any package was seen; when a package carries
\* load errors the run has failed at that package with an error whose text
\* names the pattern, no category was ever run for a package with load
\* errors, its files are as the run found them, and every file of every
\* other package is as the run found it or as a finished category saved it.
C21_LoadErrorsStopRun ==
    /\ \A i \in 1..Len(steps) : pkgs[steps[i].pkg].Errors = <<>>
    /\ \A p \in 1..Len(pkgs) :
          pkgs[p].Errors # <<>> => (pc # "done" /\ Untouched(pkgs[p].PkgPath))
    /\ (pc = "failed" /\ Cause(err) = ErrLoad)
          => /\ err[1] = <<errLoadPackages, " : ", pattern>>
             /\ pattern \in Pieces(ErrorString(err))
             /\ pkgs = <<>>
             /\ steps = <<>>
             /\ sinkCalls = <<>>
             /\ disk = disk0
    /\ (pc = "failed" /\ Cause(err) \in {ErrBrokenPackage, ErrRedeclared})
          => /\ err[1] = <<errLoadingPackages, " : ", pattern>>
             /\ pattern \in Pieces(ErrorString(err))
             /\ pkgs[pi].Errors # <<>>
             /\ Cause(err) = pkgs[pi].Errors[1]
             /\ \A q \in 1..(pi - 1) : pkgs[q].Errors = <<>>
             /\ \A path \in PkgPaths : Intact(path)

C21_Witness ==
    /\ pc = "failed"
    /\ pi = 2
    /\ Cause(err) = ErrBrokenPackage
    /\ Len(steps) = Len(Categories)
    /\ \E fn \in Filenames : written[<<pkgs[1].PkgPath, fn>>].present
    /\ Untouched(pkgs[2].PkgPath)

\* the places of file f that hold a method of the named type
EmittedFor(f, type) == {j \in 1..Len(f) : f[j].type = type}

AtLoad(p) == LoadPackage(disk0, tree[p], FALSE)

\* the method names of file f on the named type
NamesFor(f, type) == {f[j].method : j \in EmittedFor(f, type)}

\* the names two categories both register
SharedNames == DOMAIN ManagedMethods \cap DOMAIN TargetConfigMethods

\* category cat of package p ran and returned no error
Ran(p, cat) == \E i \in StepsOf(p, cat) : steps[i].err = Nil

\* C23: in every file a finished category saved, a declaration the category
\* accepts has a name of the category's set exactly when the inventory
\* loaded at the start of the run holds no such method outside that file,
\* whatever the earlier categories and packages of the run saved; so a
\* declaration that Managed and TargetConfig both accept and that had
\* neither SetConditions nor GetCondition at load gets both methods in both
\* categories' files of one run.
C23_FilterSeesLoadedInventory ==
    /\ \A i \in 1..Len(steps) :
          steps[i].err = Nil =>
             LET before == AtLoad(steps[i].pkg)
                 cat == steps[i].cat
                 fn == Filename(cat)
                 f == written[<<before.PkgPath, fn>>].methods
             IN  /\ before.decls = pkgs[steps[i].pkg].decls
                 /\ \A k \in Matching(before, CategoryMatcher(cat)) :
                       \A n \in DOMAIN MethodsOf(cat) :
                          n \in NamesFor(f, before.decls[k].name)
                              <=> ~DefinedOutside(fn, before.decls[k], n)
    /\ \A p \in 1..Len(pkgs) :
          (Ran(p, "Managed") /\ Ran(p, "TargetConfig")) =>
             \A k \in Matching(AtLoad(p), CategoryMatcher("Managed"))
                        \cap Matching(AtLoad(p), CategoryMatcher("TargetConfig")) :
                LET o == AtLoad(p).decls[k]
                IN  (\A n \in SharedNames : \A mo \in o.methods : mo.name # n)
                       => /\ SharedNames \subseteq
                                NamesFor(written[<<pkgs[p].PkgPath, Filename("Managed")>>].methods, o.name)
                          /\ SharedNames \subseteq
                                NamesFor(written[<<pkgs[p].PkgPath, Filename("TargetConfig")>>].methods, o.name)

\* apis/dual after the first run's TargetConfig category
C23_Witness ==
    /\ run = 1
    /\ \E p \in 1..Len(pkgs) :
          /\ pkgs[p].PkgPath = "apis/dual"
          /\ Ran(p, "Managed")
          /\ Ran(p, "TargetConfig")
    /\ SharedNames = {"SetConditions", "GetCondition"}
    /\ SharedNames \subseteq NamesFor(written[<<"apis/dual", "zz_generated.managed.go">>].methods, "Dual")
    /\ SharedNames \subseteq NamesFor(written[<<"apis/dual", "zz_generated.tc.go">>].methods, "Dual")

\* the file category cat builds for package pk, the keys taken in one order
WholeFile(pk, cat) ==
    WriteMethods(pk, MethodsOf(cat), Filename(cat), CategoryMatcher(cat),
                 [k \in Matching(pk, CategoryMatcher(cat)) |-> SeqOf(DOMAIN MethodsOf(cat))])

CategoryIndex(cat) == CHOOSE a \in 1..Len(Categories) : Categories[a] = cat

\* category cat of package p returned no error and what it saved, if it had
\* anything to save, is on disk whole
RanToCompletion(p, cat) ==
    LET f == WholeFile(pkgs[p], cat)
        key == <<pkgs[p].PkgPath, Filename(cat)>>
    IN  /\ Ran(p, cat)
        /\ IF f = <<>>
           THEN /\ ~written[key].present
                /\ disk[key] = disk0[key]
           ELSE /\ written[key] = [present |-> TRUE, header |-> header.text, methods |-> f]
                /\ disk[key] = written[key]

\* category cat of package p was not started and its file is as the run found it
NotRun(p, cat) ==
    LET key == <<pkgs[p].PkgPath, Filename(cat)>>
    IN  /\ StepsOf(p, cat) = {}
        /\ ~written[key].present
        /\ disk[key] = disk0[key]
        /\ \A s \in 1..Len(sinkCalls) : sinkCalls[s] # key

\* C24: a run that failed inside the package loop failed at package k = pi,
\* either on that package's load errors before its first category or on the
\* error of one of its categories; all five categories of every package
\* before k and the categories of k before the failing one returned no error
\* and their files are on disk as they saved them, the categories of k after
\* the failing one and all categories of the packages after k were not
\* started, and their files are as the run found them.
C24_AbortKeepsEarlierOutput ==
    (pc = "failed" /\ pi >= 1) =>
        LET k == pi
            failing == {i \in 1..Len(steps) : steps[i].err # Nil}
            c == IF failing = {} THEN 1 ELSE CategoryIndex(steps[Len(steps)].cat)
            next == IF failing = {} THEN c ELSE c + 1
        IN  /\ k <= Len(pkgs)
            /\ IF failing = {}
               THEN /\ pkgs[k].Errors # <<>>
                    /\ Cause(err) = pkgs[k].Errors[1]
               ELSE /\ failing = {Len(steps)}
                    /\ steps[Len(steps)].pkg = k
                    /\ pkgs[k].Errors = <<>>
                    /\ Cause(err) = Cause(steps[Len(steps)].err)
            /\ \A p \in 1..(k - 1) : \A cat \in CategorySet : RanToCompletion(p, cat)
            /\ \A a \in 1..(c - 1) : RanToCompletion(k, Categories[a])
            /\ \A a \in next..Len(Categories) : NotRun(k, Categories[a])
            /\ \A p \in (k + 1)..Len(pkgs) : \A cat \in CategorySet : NotRun(p, cat)

\* apis/config done, apis/dual failing at its TargetConfig file
C24_Witness ==
    /\ pc = "failed"
    /\ pi = 2
    /\ pkgs[1].PkgPath = "apis/config"
    /\ pkgs[2].PkgPath = "apis/dual"
    /\ steps[Len(steps)].cat = "TargetConfig"
    /\ steps[Len(steps)].err # Nil
    /\ disk[<<"apis/config", "zz_generated.tc.go">>].present
    /\ disk[<<"apis/config", "zz_generated.tculist.go">>].present
    /\ disk[<<"apis/dual", "zz_generated.managed.go">>].present
    /\ ~disk[<<"apis/dual", "zz_generated.tc.go">>].present

====
